---- MODULE Spec2Model ----
(***************************************************************************)
(* A model of the kubedesk-helper daemon: the cluster registry, the        *)
(* session manager, the proxy supervisor (POST /proxy/start), the proxy    *)
(* router (/proxy/{clusterHash}/...) and the other session endpoints.      *)
(*                                                                         *)
(* The source tree holds several revisions of some files.  The model       *)
(* follows the most recent revision of each handler that is present:       *)
(* ProxyHandler in src/unnamed/part_002 (second file), ProxyRouterHandler  *)
(* in src/internal/api/proxy_router.go (first file), the port-forward,     *)
(* exec and shell handlers in src/internal/api, the hash functions in      *)
(* src/unnamed/part_006.  The revision of the session manager that knows   *)
(* cluster hashes is not in the tree: Session.ClusterHash,                 *)
(* FindByClusterHash and GetWithClusterValidation follow the               *)
(* specification's description of them.                                    *)
(*                                                                         *)
(* Strings are TLA+ strings; a cluster hash is the tuple of its characters *)
(* (the port allocator reads them one by one), the empty hash is << >>.    *)
(***************************************************************************)
EXTENDS Integers, Sequences, FiniteSets, TLC

(***************************************************************************)
(* Bounds of the model.                                                    *)
(***************************************************************************)
\* Sessions the manager creates in one behaviour (uuid.New draws 1..MaxSessions).
MaxSessions == 2
\* Iterations of the readiness probe (the code's maxRetries is 30).
MaxRetries == 1
\* Clock ticks of one behaviour of the timed specification.
MaxTime == 6

(***************************************************************************)
(* Program constants.                                                      *)
(***************************************************************************)
PortBase == 47824
PortRange == 10000
FallbackPort == 8001

(***************************************************************************)
(* The inputs: kubeconfig documents and context names the app sends.       *)
(***************************************************************************)
Kubeconfigs == {"", "k", "k:p"}
Contexts == {"", "dev", "prod-786", "q", "p:q"}

NoHash == << >>

(***************************************************************************)
(* cluster.ComputeHash                                                     *)
(***************************************************************************)
\* fmt.Sprintf("%x", sha256.Sum256(data))[:16] on the data strings of the model:
\* the values are the real digests.
Sha256Hex16(data) ==
  CASE data = ":dev" -> <<"9","d","a","0","0","5","8","3","d","f","8","b","c","8","5","b">>
    [] data = ":prod-786" -> <<"e","b","c","0","f","2","c","a","4","3","8","f","d","7","1","4">>
    [] data = ":q" -> <<"d","6","1","d","8","f","d","e","5","2","0","b","1","0","b","f">>
    [] data = ":p:q" -> <<"0","d","0","1","2","c","d","7","c","f","d","4","b","6","a","4">>
    [] data = "k:" -> <<"d","e","2","6","1","5","7","c","f","0","d","7","3","5","4","5">>
    [] data = "k:dev" -> <<"a","1","9","6","a","4","a","6","c","3","8","9","9","c","5","3">>
    [] data = "k:prod-786" -> <<"4","d","b","2","e","4","e","d","a","7","5","7","7","b","6","6">>
    [] data = "k:q" -> <<"5","b","6","b","a","b","0","e","2","e","e","2","3","a","2","b">>
    [] data = "k:p:q" -> <<"9","7","0","0","a","8","7","4","2","f","d","e","9","3","f","c">>
    [] data = "k:p:" -> <<"2","3","a","3","1","e","a","4","d","3","7","a","b","4","0","2">>
    [] data = "k:p:dev" -> <<"0","d","3","d","b","2","6","5","3","6","c","d","8","d","c","b">>
    [] data = "k:p:prod-786" -> <<"e","e","5","b","9","0","0","5","8","9","4","0","d","e","a","2">>
    [] data = "k:p:p:q" -> <<"5","2","b","f","9","1","3","f","c","7","f","a","6","e","b","d">>

ComputeHash(kubeconfig, context) ==
  IF kubeconfig = "" /\ context = ""
    THEN NoHash
    ELSE Sha256Hex16(kubeconfig \o ":" \o context)

\* a validation that lets a request without hash pass
ValidateLenient(providedHash, kubeconfig, context) ==
  providedHash = NoHash \/ providedHash = ComputeHash(kubeconfig, context)

ValidateHash(providedHash, kubeconfig, context) ==
  LET expectedHash == ComputeHash(kubeconfig, context)
  IN  IF providedHash = NoHash /\ expectedHash = NoHash
        THEN TRUE
        ELSE providedHash = expectedHash

(***************************************************************************)
(* The port allocator.                                                     *)
(***************************************************************************)
\* a conversion that knows only the digits and the lower-case letters
hexLowerToInt(c) ==
  CASE c = "0" -> 0 [] c = "1" -> 1 [] c = "2" -> 2 [] c = "3" -> 3
    [] c = "4" -> 4 [] c = "5" -> 5 [] c = "6" -> 6 [] c = "7" -> 7
    [] c = "8" -> 8 [] c = "9" -> 9 [] c = "a" -> 10 [] c = "b" -> 11
    [] c = "c" -> 12 [] c = "d" -> 13 [] c = "e" -> 14 [] c = "f" -> 15
    [] OTHER -> 0

hexCharToInt(c) ==
  CASE c = "0" -> 0 [] c = "1" -> 1 [] c = "2" -> 2 [] c = "3" -> 3
    [] c = "4" -> 4 [] c = "5" -> 5 [] c = "6" -> 6 [] c = "7" -> 7
    [] c = "8" -> 8 [] c = "9" -> 9
    [] c \in {"a", "A"} -> 10 [] c \in {"b", "B"} -> 11
    [] c \in {"c", "C"} -> 12 [] c \in {"d", "D"} -> 13
    [] c \in {"e", "E"} -> 14 [] c \in {"f", "F"} -> 15
    [] OTHER -> 0

RECURSIVE HashNum(_, _)
\* the loop "for i := 0; i < 4 && i < len(clusterHash); i++": hashNum after n characters
\* (uint32: at most four hex digits are folded in, so the value stays below 65536)
HashNum(clusterHash, n) ==
  IF n = 0 THEN 0
  ELSE (HashNum(clusterHash, n - 1) * 16 + hexCharToInt(clusterHash[n])) % 65536

Min(a, b) == IF a < b THEN a ELSE b

assignPortForCluster(clusterHash) ==
  IF clusterHash = NoHash
    THEN FallbackPort
    ELSE PortBase + (HashNum(clusterHash, Min(4, Len(clusterHash))) % PortRange)

\* a handler that honours the port of the request
requestedPort(reqPort, clusterHash) ==
  IF reqPort # 0 THEN reqPort ELSE assignPortForCluster(clusterHash)

\* ProxyHandler.Start: "ALWAYS use deterministic port based on cluster hash",
\* the port of the request is only logged
assignedPort(reqPort, clusterHash) == assignPortForCluster(clusterHash)

(***************************************************************************)
(* The state.                                                              *)
(***************************************************************************)
VARIABLES
  sessions,   \* Manager.sessions: the ids that are keys of the map
  sess,       \* the Session objects by id (a handler keeps its pointer after removal)
  proc,       \* the child process of each session: none, started, listening, exited, killed
  reaped,     \* the monitor goroutine of the session has returned from cmd.Wait()
  disk,       \* the kubeconfig temp files on disk (kubeconfig-<id>, named by the id)
  clusters,   \* Registry.clusters: hash -> ClusterInfo
  nextId,     \* the next id uuid.New() hands out
  wk,         \* the HTTP server's request workers
  now,        \* the clock
  lastPass,   \* the time the evictor's ticker last fired
  main,       \* main and the evictor goroutine: where main is (serving, shutdown,
              \* stopall, closed), whether stopCleanup is closed, where
              \* cleanupLoop is (select, pass, returned)
  fin,        \* inputs of the pure-function specification
  fout,       \* its results
  logger      \* the AsyncHandlers of package logging, their queue and worker

vars == <<sessions, sess, proc, reaped, disk, clusters, nextId, wk, now, lastPass, main, fin, fout,
          logger>>

Ids == 1..MaxSessions
Workers == {"w1", "w2"}

TypePortForward == "port-forward"
TypeExec == "exec"
TypeProxy == "proxy"
TypeShell == "shell"
StatusRunning == "running"
StatusStopped == "stopped"
StatusFailed == "failed"

\* Session.ExitCode is a pointer: nil, or the address of an exit code
NilExitCode == << >>

\* childOut is what the child has written to its stdout and stderr so far
\* (the program does not keep it)
NoSession ==
  [Type |-> "", Status |-> "", Port |-> 0, Context |-> "", Kubeconfig |-> "",
   ClusterHash |-> NoHash, TempFiles |-> {}, lastReadTime |-> 0, stoppedAt |-> 0,
   outputBuffer |-> << >>, ExitCode |-> NilExitCode, childOut |-> << >>,
   teardowns |-> 0]

(***************************************************************************)
(* cluster.Registry                                                        *)
(***************************************************************************)
\* a Register without the guard on the empty hash
RegisterAnyHash(reg, hash, kubeconfig, context) ==
  [h \in DOMAIN reg \cup {hash} |->
     IF h = hash THEN [Kubeconfig |-> kubeconfig, Context |-> context] ELSE reg[h]]

Register(reg, hash, kubeconfig, context) ==
  IF hash = NoHash
    THEN reg
    ELSE [h \in DOMAIN reg \cup {hash} |->
            IF h = hash THEN [Kubeconfig |-> kubeconfig, Context |-> context] ELSE reg[h]]

\* Lookup's third result
LookupFound(reg, hash) == hash # NoHash /\ hash \in DOMAIN reg

ComputeAndRegister(reg, kubeconfig, context) ==
  Register(reg, ComputeHash(kubeconfig, context), kubeconfig, context)

(***************************************************************************)
(* session.Manager                                                         *)
(***************************************************************************)
NewSession(sessionType) ==
  [NoSession EXCEPT !.Type = sessionType, !.Status = StatusRunning, !.lastReadTime = now]

Get(id) == id \in sessions

List(sessionType) == {id \in sessions : sess[id].Type = sessionType}

FindByClusterHash(hash) == {id \in sessions : sess[id].ClusterHash = hash}

\* a cleanup that takes every session
CleanupAll(hash) == sessions

\* Manager.CleanupByClusterHash: the sessions it stops; their number is its result
CleanupByClusterHash(hash) == FindByClusterHash(hash)

GetWithClusterValidation(id, expectedHash) ==
  Get(id) /\ sess[id].ClusterHash = expectedHash

Alive(p) == p \in {"started", "listening"}

\* the process listening on a TCP port of localhost
Listener(port) == {i \in Ids : proc[i] = "listening" /\ sess[i].Port = port}

\* a removal that kills no process
StopNoKill(p, ids) == p

\* Manager.Stop for each id of ids, on process table p, session objects s and disk d
\* (an id that is not a key of the map is skipped: "Already stopped").
\* Process.Kill, when Cmd and Cmd.Process are set:
StopKill(p, ids) ==
  [i \in Ids |-> IF i \in ids \cap sessions /\ Alive(p[i]) THEN "killed" ELSE p[i]]

\* a removal that leaves the entry in the map
StopKeep(ids) == sessions

\* the teardown of a session (Process.Kill and the onSessionCleanup callback),
\* counted on the session object: Stop, StopAll and the evictor perform it for
\* the sessions they find in the map, under m.mu
StopTeardown(s, ids) ==
  [i \in Ids |-> IF i \in ids \cap sessions
                   THEN [s[i] EXCEPT !.teardowns = @ + 1] ELSE s[i]]

StopStatus(s, ids) ==
  [i \in Ids |-> IF i \in ids \cap sessions
                   THEN [s[i] EXCEPT !.Status = StatusStopped] ELSE s[i]]

\* a Stop that leaves the temp files where they are
KeepFiles(d, s, ids) == d

\* cleanupSessionFiles
StopFiles(d, s, ids) == d \ UNION {s[i].TempFiles : i \in ids \cap sessions}

StopDelete(ids) == sessions \ ids

StopFrom(p, s, d, ids) ==
  /\ proc' = StopKill(p, ids)
  /\ sess' = StopStatus(StopTeardown(s, ids), ids)
  /\ disk' = StopFiles(d, s, ids)
  /\ sessions' = StopDelete(ids)

Stop(ids) == StopFrom(proc, sess, disk, ids)

(***************************************************************************)
(* The cluster-identity stage of the start handlers: what the handler      *)
(* answers and what it leaves in the registry.                             *)
(***************************************************************************)
Reject(err, reg) ==
  [ok |-> FALSE, err |-> err, k |-> "", c |-> "", h |-> NoHash, reg |-> reg]

Accept(k, c, h, reg) ==
  [ok |-> TRUE, err |-> "", k |-> k, c |-> c, h |-> h, reg |-> reg]

\* a handler that registers a provided hash without validating it
RegisterUnvalidated(reg, k, c, h) ==
  IF h = NoHash
    THEN Accept(k, c, ComputeHash(k, c), ComputeAndRegister(reg, k, c))
    ELSE Accept(k, c, h, Register(reg, h, k, c))

\* "If hash is provided, VALIDATE it first before registering"
ValidateThenRegister(reg, k, c, h) ==
  IF h = NoHash
    THEN Accept(k, c, ComputeHash(k, c), ComputeAndRegister(reg, k, c))
    ELSE IF h # ComputeHash(k, c)
           THEN Reject("Cluster hash mismatch", reg)
           ELSE Accept(k, c, h, Register(reg, h, k, c))

\* ProxyHandler.Start: no registry lookup
IdentifyProxy(reg, k, c, h) == ValidateThenRegister(reg, k, c, h)

\* "If kubeconfig/context not provided, try to look up from registry"
NeedsLookup(k, c, h) == k = "" /\ c = "" /\ h # NoHash

IdentifyExec(reg, k, c, h) ==
  IF NeedsLookup(k, c, h)
    THEN IF ~LookupFound(reg, h)
           THEN Reject("Cluster hash not found in registry", reg)
           ELSE ValidateThenRegister(reg, reg[h].Kubeconfig, reg[h].Context, h)
    ELSE ValidateThenRegister(reg, k, c, h)

\* ShellHandler.Start: as exec, then the double check
IdentifyShell(reg, k, c, h) ==
  LET r == IdentifyExec(reg, k, c, h)
  IN  IF r.ok /\ ~ValidateHash(r.h, r.k, r.c)
        THEN Reject("Cluster hash validation failed", r.reg)
        ELSE r

\* PortForwardHandler.Start: registers the provided hash, then validates
RegisterThenValidate(reg, k, c, h) ==
  LET h2 == IF h = NoHash THEN ComputeHash(k, c) ELSE h
      reg2 == IF h = NoHash THEN ComputeAndRegister(reg, k, c) ELSE Register(reg, h, k, c)
  IN  IF ~ValidateHash(h2, k, c)
        THEN Reject("Cluster hash validation failed", reg2)
        ELSE Accept(k, c, h2, reg2)

IdentifyPortForward(reg, k, c, h) ==
  IF NeedsLookup(k, c, h)
    THEN IF ~LookupFound(reg, h)
           THEN Reject("Cluster hash not found in registry", reg)
           ELSE RegisterThenValidate(reg, reg[h].Kubeconfig, reg[h].Context, h)
    ELSE RegisterThenValidate(reg, k, c, h)

Identify(ep, reg, k, c, h) ==
  CASE ep = TypeProxy -> IdentifyProxy(reg, k, c, h)
    [] ep = TypePortForward -> IdentifyPortForward(reg, k, c, h)
    [] ep = TypeExec -> IdentifyExec(reg, k, c, h)
    [] ep = TypeShell -> IdentifyShell(reg, k, c, h)

\* the log records of the cluster-identity stage, with their "context" and
\* "kubeconfig" attributes (NotLogged: the record has no such attribute): the
\* slog.Error of the path that rejects, the slog.Info of the path that accepts
NotLogged == "<none>"

IdentifyLog(ep, reg, k, c, h) ==
  LET r == Identify(ep, reg, k, c, h)
      looked == ep # TypeProxy /\ NeedsLookup(k, c, h) /\ LookupFound(reg, h)
      reqKubeconfig == IF looked THEN reg[h].Kubeconfig ELSE k
      reqContext == IF looked THEN reg[h].Context ELSE c
  IN  IF r.ok
        THEN <<[msg |-> "Registered cluster hash", context |-> reqContext,
                kubeconfig |-> NotLogged]>>
        ELSE IF r.err = "Cluster hash validation failed"
          THEN <<[msg |-> r.err, context |-> reqContext, kubeconfig |-> reqKubeconfig]>>
          ELSE IF r.err = "Cluster hash mismatch"
            THEN <<[msg |-> r.err, context |-> reqContext, kubeconfig |-> NotLogged]>>
            ELSE <<[msg |-> r.err, context |-> NotLogged, kubeconfig |-> NotLogged]>>

(***************************************************************************)
(* The request workers.                                                    *)
(***************************************************************************)
NoReq ==
  [ep |-> "", k |-> "", c |-> "", h |-> NoHash, port |-> 0, id |-> 0, timeout |-> 0]

NoResp ==
  [code |-> 0, sid |-> 0, port |-> 0, h |-> NoHash, err |-> "", served |-> 0,
   reused |-> FALSE, output |-> << >>, sessionsRemoved |-> 0, exitCode |-> 0,
   status |-> "", sessionExitCode |-> NilExitCode]

\* pc: idle, preempt, create, sethash, launch, probe, forward, run, wait, done;
\* log is what the handler has logged, preempted the running proxies its
\* preempt scan has stopped;
\* cmd, deadline and tmpFile are the locals of ExecHandler.Execute: the child
\* of the request (none, started, exit0, exit1, killed), the deadline of its
\* context and whether its kubeconfig file is on disk
IdleWorker ==
  [pc |-> "idle", req |-> NoReq, k |-> "", c |-> "", h |-> NoHash, sid |-> 0,
   aport |-> 0, i |-> 0, resp |-> NoResp, cmd |-> "none", deadline |-> 0,
   tmpFile |-> FALSE, log |-> << >>, preempted |-> {}]

Respond(w, resp) == [w EXCEPT !.pc = "done", !.resp = resp]

HttpError(w, code, err) == Respond(w, [NoResp EXCEPT !.code = code, !.err = err])

\* what the app may send
ReqPorts == {0, 9000}
StartEndpoints == {TypeProxy, TypePortForward, TypeExec, TypeShell}

\* start handlers that have not yet called Create
Pending == Cardinality({t \in Workers : wk[t].pc \in {"preempt", "create"}})

(***************************************************************************)
(* logging.AsyncHandler                                                    *)
(***************************************************************************)
\* the handler NewAsyncHandler returns, and the one WithAttrs or WithGroup
\* derives from it
Handlers == {"root", "derived"}

\* the goroutines that log
Callers == {"g1", "g2"}

\* NewAsyncHandler: an open, empty queue, the worker started; handlers has
\* the handlers that exist, closed their closed flags, wg their WaitGroup
\* counters; handled is what the worker has passed to the wrapped handler
NewAsyncHandler ==
  [handlers |-> {"root"},
   closed |-> [h \in Handlers |-> FALSE],
   wg |-> [h \in Handlers |-> IF h = "root" THEN 1 ELSE 0],
   queue |-> << >>, queueClosed |-> FALSE,
   handled |-> << >>, worker |-> "range",
   pc |-> [g \in Callers |-> "idle"], h |-> [g \in Callers |-> "root"],
   rec |-> [g \in Callers |-> 0],
   close |-> [pc |-> "idle", h |-> "root"],
   records |-> 0, panic |-> ""]

Init ==
  /\ sessions = {}
  /\ sess = [i \in Ids |-> NoSession]
  /\ proc = [i \in Ids |-> "none"]
  /\ reaped = [i \in Ids |-> FALSE]
  /\ disk = {}
  /\ clusters = << >>
  /\ nextId = 1
  /\ wk = [t \in Workers |-> IdleWorker]
  /\ now = 0
  /\ lastPass = 0
  /\ fin = << >>
  /\ fout = << >>
  /\ main = [pc |-> "serving", stopCleanup |-> FALSE, cleanupLoop |-> "select"]
  /\ logger = NewAsyncHandler

(***************************************************************************)
(* POST /proxy/start                                                       *)
(***************************************************************************)
\* the running proxies of FindByClusterHash(hash) the reuse loop returns one of
\* a handler that never looks for a proxy to reuse
NoReuse(hash, context) == {}

\* a reuse loop without the comparison of the contexts
ReuseAnyContext(hash, context) ==
  {i \in FindByClusterHash(hash) :
     sess[i].Type = TypeProxy /\ sess[i].Status = StatusRunning}

ReuseCandidates(hash, context) ==
  {i \in FindByClusterHash(hash) :
     /\ sess[i].Type = TypeProxy
     /\ sess[i].Status = StatusRunning
     /\ sess[i].Context = context}

\* decode, identify, look for a proxy to reuse, assign the port
ProxyStartBegin(t, k, c, h, port) ==
  /\ wk[t].pc = "idle"
  /\ nextId + Pending <= MaxSessions
  /\ LET r == IdentifyProxy(clusters, k, c, h)
         w == [wk[t] EXCEPT !.req = [ep |-> TypeProxy, k |-> k, c |-> c, h |-> h,
                                     port |-> port, id |-> 0, timeout |-> 0],
                            !.log = IdentifyLog(TypeProxy, clusters, k, c, h)]
     IN  /\ clusters' = r.reg
         /\ IF ~r.ok
              THEN wk' = [wk EXCEPT ![t] = HttpError(w, 400, r.err)]
              ELSE IF ReuseCandidates(r.h, c) # {}
                THEN \E i \in ReuseCandidates(r.h, c) :
                       wk' = [wk EXCEPT ![t] =
                                Respond(w, [NoResp EXCEPT !.code = 200, !.sid = i,
                                                          !.port = sess[i].Port,
                                                          !.h = r.h, !.reused = TRUE])]
                ELSE wk' = [wk EXCEPT ![t] =
                              [w EXCEPT !.pc = "preempt", !.k = r.k, !.c = r.c,
                                        !.h = r.h,
                                        !.aport = assignedPort(port, r.h)]]
  /\ UNCHANGED <<sessions, sess, proc, reaped, disk, nextId, now, lastPass, main, fin, fout, logger>>

\* a handler that stops nobody
NoVictims(port, hash) == {}

\* the proxies the preempt scan stops
PreemptVictims(port, hash) ==
  {i \in List(TypeProxy) : sess[i].Port = port /\ sess[i].ClusterHash # hash}

ProxyPreempt(t) ==
  /\ wk[t].pc = "preempt"
  /\ Stop(PreemptVictims(wk[t].aport, wk[t].h))
  /\ wk' = [wk EXCEPT ![t].pc = "create",
                       ![t].preempted =
                          {i \in PreemptVictims(wk[t].aport, wk[t].h) :
                             sess[i].Status = StatusRunning}]
  /\ UNCHANGED <<reaped, clusters, nextId, now, lastPass, main, fin, fout, logger>>

(***************************************************************************)
(* POST /port-forward/start, /exec/start, /shell/start                     *)
(***************************************************************************)
StartBegin(t, ep, k, c, h) ==
  /\ wk[t].pc = "idle"
  /\ ep # TypeProxy
  /\ nextId + Pending <= MaxSessions
  /\ LET r == Identify(ep, clusters, k, c, h)
         w == [wk[t] EXCEPT !.req = [ep |-> ep, k |-> k, c |-> c, h |-> h,
                                     port |-> 0, id |-> 0, timeout |-> 0],
                            !.log = IdentifyLog(ep, clusters, k, c, h)]
     IN  /\ clusters' = r.reg
         /\ wk' = [wk EXCEPT ![t] =
                     IF ~r.ok THEN HttpError(w, 400, r.err)
                     ELSE [w EXCEPT !.pc = "create", !.k = r.k, !.c = r.c, !.h = r.h]]
  /\ UNCHANGED <<sessions, sess, proc, reaped, disk, nextId, now, lastPass, main, fin, fout, logger>>

(***************************************************************************)
(* The steps every start handler shares.                                   *)
(***************************************************************************)
\* sessionMgr.Create, then sess.Port, sess.Context, sess.Kubeconfig
StartCreate(t) ==
  /\ wk[t].pc = "create"
  /\ nextId <= MaxSessions
  /\ sessions' = sessions \cup {nextId}
  /\ sess' = [sess EXCEPT ![nextId] =
                [NewSession(wk[t].req.ep) EXCEPT !.Port = wk[t].aport,
                                                 !.Context = wk[t].c,
                                                 !.Kubeconfig = wk[t].k]]
  /\ nextId' = nextId + 1
  /\ wk' = [wk EXCEPT ![t].pc = "sethash", ![t].sid = nextId]
  /\ UNCHANGED <<proc, reaped, disk, clusters, now, lastPass, main, fin, fout, logger>>

\* sess.ClusterHash = req.ClusterHash
StartSetHash(t) ==
  /\ wk[t].pc = "sethash"
  /\ sess' = [sess EXCEPT ![wk[t].sid].ClusterHash = wk[t].h]
  /\ wk' = [wk EXCEPT ![t].pc = "launch"]
  /\ UNCHANGED <<sessions, proc, reaped, disk, clusters, nextId, now, lastPass, main, fin, fout, logger>>

\* the temp file the handler writes for a request with a kubeconfig
KubeconfigFile(t) == IF wk[t].k = "" THEN {} ELSE {wk[t].sid}

\* LookPath, WriteFile, the pipes, cmd.Start: all succeed
StartLaunch(t) ==
  /\ wk[t].pc = "launch"
  /\ disk' = disk \cup KubeconfigFile(t)
  /\ sess' = [sess EXCEPT ![wk[t].sid].TempFiles = @ \cup KubeconfigFile(t)]
  /\ proc' = [proc EXCEPT ![wk[t].sid] = "started"]
  /\ wk' = [wk EXCEPT ![t] =
              IF wk[t].req.ep = TypeProxy
                THEN [wk[t] EXCEPT !.pc = "probe"]
                ELSE Respond(wk[t], [NoResp EXCEPT !.code = 200, !.sid = wk[t].sid,
                                                   !.h = wk[t].h])]
  /\ UNCHANGED <<sessions, reaped, clusters, nextId, now, lastPass, main, fin, fout, logger>>

\* kubectl not found, WriteFile fails or a pipe fails: nothing was written
StartLaunchFailEarly(t) ==
  /\ wk[t].pc = "launch"
  /\ Stop({wk[t].sid})
  /\ wk' = [wk EXCEPT ![t] = HttpError(wk[t], 500, "launch failed")]
  /\ UNCHANGED <<reaped, clusters, nextId, now, lastPass, main, fin, fout, logger>>

\* cmd.Start fails after the kubeconfig file was written and recorded
StartLaunchFailStart(t) ==
  /\ wk[t].pc = "launch"
  /\ StopFrom(proc,
              [sess EXCEPT ![wk[t].sid].TempFiles = @ \cup KubeconfigFile(t)],
              disk \cup KubeconfigFile(t),
              {wk[t].sid})
  /\ wk' = [wk EXCEPT ![t] = HttpError(wk[t], 500, "Failed to start")]
  /\ UNCHANGED <<reaped, clusters, nextId, now, lastPass, main, fin, fout, logger>>

\* one iteration of the readiness probe: the child has exited
ProbeExited(t) ==
  /\ wk[t].pc = "probe"
  /\ reaped[wk[t].sid] /\ proc[wk[t].sid] = "exited"
  /\ Stop({wk[t].sid})
  /\ wk' = [wk EXCEPT ![t] = HttpError(wk[t], 500, "process exited")]
  /\ UNCHANGED <<reaped, clusters, nextId, now, lastPass, main, fin, fout, logger>>

\* the dial to localhost:<port> succeeds
ProbeReady(t) ==
  /\ wk[t].pc = "probe"
  /\ ~(reaped[wk[t].sid] /\ proc[wk[t].sid] = "exited")
  /\ Listener(wk[t].aport) # {}
  /\ wk' = [wk EXCEPT ![t] =
              Respond(wk[t], [NoResp EXCEPT !.code = 200, !.sid = wk[t].sid,
                                            !.port = wk[t].aport, !.h = wk[t].h])]
  /\ UNCHANGED <<sessions, sess, proc, reaped, disk, clusters, nextId, now, lastPass, main, fin, fout, logger>>

\* the dial fails; after maxRetries iterations the handler gives up
ProbeRetry(t) ==
  /\ wk[t].pc = "probe"
  /\ ~(reaped[wk[t].sid] /\ proc[wk[t].sid] = "exited")
  /\ Listener(wk[t].aport) = {}
  /\ IF wk[t].i + 1 < MaxRetries
       THEN /\ wk' = [wk EXCEPT ![t].i = @ + 1]
            /\ UNCHANGED <<sessions, sess, proc, disk>>
       ELSE /\ Stop({wk[t].sid})
            /\ wk' = [wk EXCEPT ![t] = HttpError(wk[t], 500, "not listening")]
  /\ UNCHANGED <<reaped, clusters, nextId, now, lastPass, main, fin, fout, logger>>

(***************************************************************************)
(* ANY /proxy/{clusterHash}/...                                            *)
(***************************************************************************)
\* a selection loop that does not look at the status
RouteAnyStatus(clusterHash) ==
  {i \in FindByClusterHash(clusterHash) : sess[i].Type = TypeProxy}

\* the sessions the selection loop of Route may pick (the first it meets)
RouteCandidates(clusterHash) ==
  {i \in FindByClusterHash(clusterHash) :
     /\ sess[i].Type = TypeProxy
     /\ sess[i].Status = StatusRunning
     /\ sess[i].ClusterHash = clusterHash}

\* the lookup: 503 when no running proxy is found
RouteBegin(t, clusterHash) ==
  /\ wk[t].pc = "idle"
  /\ LET w == [wk[t] EXCEPT !.req = [NoReq EXCEPT !.ep = "route", !.h = clusterHash]]
     IN  IF RouteCandidates(clusterHash) = {}
           THEN wk' = [wk EXCEPT ![t] =
                         Respond(w, [NoResp EXCEPT !.code = 503, !.h = clusterHash,
                                                   !.err = "No proxy running"])]
           ELSE \E i \in RouteCandidates(clusterHash) :
                  wk' = [wk EXCEPT ![t] = [w EXCEPT !.pc = "forward", !.sid = i]]
  /\ UNCHANGED <<sessions, sess, proc, reaped, disk, clusters, nextId, now, lastPass, main, fin, fout, logger>>

\* the double check, then client.Do to http://localhost:<proxySession.Port>
RouteForward(t) ==
  /\ wk[t].pc = "forward"
  /\ LET s == sess[wk[t].sid]
     IN  wk' = [wk EXCEPT ![t] =
                  IF s.ClusterHash # wk[t].req.h
                    THEN HttpError(wk[t], 403, "Cluster hash mismatch")
                    ELSE IF Listener(s.Port) = {}
                      THEN HttpError(wk[t], 502, "Failed to connect")
                      ELSE Respond(wk[t],
                             [NoResp EXCEPT !.code = 200, !.sid = wk[t].sid,
                                            !.port = s.Port, !.h = wk[t].req.h,
                                            !.served = CHOOSE j \in Listener(s.Port) : TRUE])]
  /\ UNCHANGED <<sessions, sess, proc, reaped, disk, clusters, nextId, now, lastPass, main, fin, fout, logger>>

(***************************************************************************)
(* DELETE /.../stop/{sessionId}[?clusterHash=]                             *)
(***************************************************************************)
\* a stop handler that does not validate
StopUnvalidated(t, id, clusterHash) ==
  /\ wk[t].pc = "idle"
  /\ Stop({id})
  /\ wk' = [wk EXCEPT ![t] =
              Respond([wk[t] EXCEPT !.req = [NoReq EXCEPT !.ep = "stop", !.id = id,
                                                          !.h = clusterHash]],
                      [NoResp EXCEPT !.code = 200])]
  /\ UNCHANGED <<reaped, clusters, nextId, now, lastPass, main, fin, fout, logger>>

StopReq(t, id, clusterHash) ==
  /\ wk[t].pc = "idle"
  /\ LET w == [wk[t] EXCEPT !.req = [NoReq EXCEPT !.ep = "stop", !.id = id,
                                                  !.h = clusterHash]]
     IN  IF clusterHash # NoHash /\ ~GetWithClusterValidation(id, clusterHash)
           THEN /\ wk' = [wk EXCEPT ![t] = HttpError(w, 404, "Session not found")]
                /\ UNCHANGED <<sessions, sess, proc, disk>>
           ELSE /\ Stop({id})
                /\ wk' = [wk EXCEPT ![t] = Respond(w, [NoResp EXCEPT !.code = 200])]
  /\ UNCHANGED <<reaped, clusters, nextId, now, lastPass, main, fin, fout, logger>>

(***************************************************************************)
(* POST /sessions/cleanup                                                  *)
(***************************************************************************)
CleanupReq(t, clusterHash) ==
  /\ wk[t].pc = "idle"
  /\ LET w == [wk[t] EXCEPT !.req = [NoReq EXCEPT !.ep = "cleanup", !.h = clusterHash]]
     IN  IF clusterHash = NoHash
           THEN /\ wk' = [wk EXCEPT ![t] = HttpError(w, 400, "clusterHash is required")]
                /\ UNCHANGED <<sessions, sess, proc, disk>>
           ELSE /\ Stop(CleanupByClusterHash(clusterHash))
                /\ wk' = [wk EXCEPT ![t] =
                            Respond(w, [NoResp EXCEPT
                                          !.code = 200, !.h = clusterHash,
                                          !.sessionsRemoved =
                                             Cardinality(CleanupByClusterHash(clusterHash))])]
  /\ UNCHANGED <<reaped, clusters, nextId, now, lastPass, main, fin, fout, logger>>

(***************************************************************************)
(* GET /exec/output/{sessionId}, /shell/output/{sessionId}                 *)
(***************************************************************************)
\* Session.ReadOutput: the read advances lastReadTime; what it returns is
\* outputBuffer.String(), the whole buffer
ReadOutput(s) == [s EXCEPT !.lastReadTime = now]

\* the bytes a child writes in one Write
MaxOutput == 2
OutputBytes == {"a", "b"}

\* a writer that keeps only the last chunk
BufferReplace(buffer, p) == p

\* threadSafeWriter.Write: bytes.Buffer.Write appends
BufferWrite(buffer, p) == buffer \o p

\* the pumps of a child's stdout and stderr (io.Copy for exec, cmd.Stdout and
\* cmd.Stderr for shell) write to the session's buffer until the child's
\* pipes are drained
Write(i, p) ==
  /\ proc[i] # "none"
  /\ ~reaped[i]
  /\ sess[i].Type \in {TypeExec, TypeShell}
  /\ Len(sess[i].outputBuffer) < MaxOutput
  /\ sess' = [sess EXCEPT ![i].outputBuffer = BufferWrite(@, p)]
  /\ UNCHANGED <<sessions, proc, reaped, disk, clusters, nextId, wk, now, lastPass, main, fin, fout, logger>>

OutputReq(t, id, clusterHash) ==
  /\ wk[t].pc = "idle"
  /\ LET w == [wk[t] EXCEPT !.req = [NoReq EXCEPT !.ep = "output", !.id = id,
                                                  !.h = clusterHash]]
     IN  IF ~(IF clusterHash # NoHash THEN GetWithClusterValidation(id, clusterHash)
              ELSE Get(id))
           THEN /\ wk' = [wk EXCEPT ![t] = HttpError(w, 404, "Session not found")]
                /\ UNCHANGED sess
           ELSE /\ sess' = [sess EXCEPT ![id] = ReadOutput(sess[id])]
                /\ wk' = [wk EXCEPT ![t] =
                            Respond(w, [NoResp EXCEPT !.code = 200, !.sid = id,
                                               !.output = sess[id].outputBuffer,
                                               !.status = sess[id].Status,
                                               !.sessionExitCode = sess[id].ExitCode])]
  /\ UNCHANGED <<sessions, proc, reaped, disk, clusters, nextId, now, lastPass, main, fin, fout, logger>>

(***************************************************************************)
(* POST /exec/input/{sessionId}                                            *)
(***************************************************************************)
\* only exec sessions have WriteInput; the write to the child's stdin fails
\* when the pipe is closed
InputReq(t, id, clusterHash) ==
  /\ wk[t].pc = "idle"
  /\ LET w == [wk[t] EXCEPT !.req = [NoReq EXCEPT !.ep = "input", !.id = id,
                                                  !.h = clusterHash]]
     IN  IF ~(IF clusterHash # NoHash THEN GetWithClusterValidation(id, clusterHash)
              ELSE Get(id))
           THEN wk' = [wk EXCEPT ![t] = HttpError(w, 404, "Session not found")]
           ELSE IF sess[id].Type # TypeExec \/ proc[id] = "none"
             THEN wk' = [wk EXCEPT ![t] =
                           HttpError(w, 400, "Session does not support input")]
             ELSE \/ /\ Alive(proc[id])
                     /\ wk' = [wk EXCEPT ![t] = Respond(w, [NoResp EXCEPT !.code = 200])]
                  \/ /\ ~Alive(proc[id])
                     /\ wk' = [wk EXCEPT ![t] = HttpError(w, 500, "Failed to write input")]
  /\ UNCHANGED <<sessions, sess, proc, reaped, disk, clusters, nextId, now, lastPass, main, fin, fout, logger>>

(***************************************************************************)
(* POST /exec                                                              *)
(***************************************************************************)
\* the timeouts a request may carry, in clock ticks (0: not given), and the
\* default (300 seconds) in clock ticks
ExecTimeouts == {0, 1}
ExecDefaultTimeout == 3

\* the answer of Execute from the error of CombinedOutput and the state of the
\* context: nil for a child that exited 0, *exec.ExitError for a child that
\* exited non-zero or was ended by a signal (its ExitCode() is then -1), any
\* other error when the child was not started
ExecuteResponse(w, cmd, deadlineExceeded) ==
  LET done == [w EXCEPT !.tmpFile = FALSE]
  IN  IF cmd = "exit0"
        THEN Respond(done, [NoResp EXCEPT !.code = 200, !.exitCode = 0])
        ELSE IF cmd \in {"exit1", "killed"}
          THEN Respond(done, [NoResp EXCEPT !.code = 200,
                                            !.exitCode = IF cmd = "killed" THEN -1 ELSE 1])
          ELSE IF deadlineExceeded
            THEN Respond(done, [NoResp EXCEPT !.code = 504, !.exitCode = -1,
                                              !.err = "Command timed out"])
            ELSE Respond(done, [NoResp EXCEPT !.code = 500, !.exitCode = -1,
                                              !.err = "exec failed"])

\* decode, identify, LookPath, the kubeconfig file, context.WithTimeout
ExecuteBegin(t, k, c, h, timeout) ==
  /\ wk[t].pc = "idle"
  /\ LET r == ValidateThenRegister(clusters, k, c, h)
         w == [wk[t] EXCEPT !.req = [NoReq EXCEPT !.ep = "execute", !.k = k, !.c = c,
                                                  !.h = h, !.timeout = timeout]]
         secs == IF timeout = 0 THEN ExecDefaultTimeout ELSE timeout
     IN  /\ clusters' = r.reg
         /\ IF ~r.ok
              THEN wk' = [wk EXCEPT ![t] = HttpError(w, 400, r.err)]
              ELSE \/ wk' = [wk EXCEPT ![t] =
                               Respond(w, [NoResp EXCEPT !.code = 500, !.exitCode = -1,
                                                         !.err = "kubectl not found in PATH"])]
                   \/ wk' = [wk EXCEPT ![t] =
                               [w EXCEPT !.pc = "run", !.k = r.k, !.c = r.c, !.h = r.h,
                                         !.tmpFile = (k # ""),
                                         !.deadline = now + secs]]
  /\ UNCHANGED <<sessions, sess, proc, reaped, disk, nextId, now, lastPass, main, fin, fout, logger>>

\* Cmd.Start inside CombinedOutput: it returns ctx.Err() when the context is
\* already done, or fails, or starts the child
ExecuteRun(t) ==
  /\ wk[t].pc = "run"
  /\ \/ /\ now >= wk[t].deadline
        /\ wk' = [wk EXCEPT ![t] = ExecuteResponse(wk[t], "none", TRUE)]
     \/ /\ now < wk[t].deadline
        /\ \/ wk' = [wk EXCEPT ![t] = ExecuteResponse(wk[t], "none", FALSE)]
           \/ wk' = [wk EXCEPT ![t].pc = "wait", ![t].cmd = "started"]
  /\ UNCHANGED <<sessions, sess, proc, reaped, disk, clusters, nextId, now, lastPass, main, fin, fout, logger>>

\* the command ends by itself
CmdExit(t, cmd) ==
  /\ wk[t].cmd = "started"
  /\ wk' = [wk EXCEPT ![t].cmd = cmd]
  /\ UNCHANGED <<sessions, sess, proc, reaped, disk, clusters, nextId, now, lastPass, main, fin, fout, logger>>

\* the deadline of the context fires: os/exec kills the child
CmdDeadline(t) ==
  /\ wk[t].cmd = "started"
  /\ now >= wk[t].deadline
  /\ wk' = [wk EXCEPT ![t].cmd = "killed"]
  /\ UNCHANGED <<sessions, sess, proc, reaped, disk, clusters, nextId, now, lastPass, main, fin, fout, logger>>

\* CombinedOutput returns: the exit code, the answer, the deferred os.Remove
ExecuteWait(t) ==
  /\ wk[t].pc = "wait"
  /\ wk[t].cmd # "started"
  /\ wk' = [wk EXCEPT ![t] = ExecuteResponse(wk[t], wk[t].cmd, now >= wk[t].deadline)]
  /\ UNCHANGED <<sessions, sess, proc, reaped, disk, clusters, nextId, now, lastPass, main, fin, fout, logger>>

\* the response has been written: the worker takes the next request
Finish(t) ==
  /\ wk[t].pc = "done"
  /\ wk' = [wk EXCEPT ![t] = IdleWorker]
  /\ UNCHANGED <<sessions, sess, proc, reaped, disk, clusters, nextId, now, lastPass, main, fin, fout, logger>>

(***************************************************************************)
(* The child processes and their monitor goroutines.                       *)
(***************************************************************************)
\* kubectl proxy binds its port, or exits when the port is taken
ProcBind(i) ==
  /\ proc[i] = "started"
  /\ sess[i].Type = TypeProxy
  /\ proc' = [proc EXCEPT ![i] = IF Listener(sess[i].Port) = {} THEN "listening"
                                 ELSE "exited"]
  /\ UNCHANGED <<sessions, sess, reaped, disk, clusters, nextId, wk, now, lastPass, main, fin, fout, logger>>

\* the child ends by itself
ProcExit(i) ==
  /\ Alive(proc[i])
  /\ proc' = [proc EXCEPT ![i] = "exited"]
  /\ UNCHANGED <<sessions, sess, reaped, disk, clusters, nextId, wk, now, lastPass, main, fin, fout, logger>>

\* what the monitor goroutine writes to the session after cmd.Wait():
\* proxy, port-forward and exec set the status on the object they hold, shell
\* goes through Get; exec logs the output of a failed command with ReadOutput;
\* all but port-forward then unlink the temp files and clear the list
\* (stoppedAt records the time of the transition, the program does not keep it);
\* exec and shell record the exit code: 0, the ExitCode() of the ExitError,
\* which is -1 for a child ended by a signal
MonitorExitCode(killed, failed) == <<IF killed THEN -1 ELSE IF failed THEN 1 ELSE 0>>

MonitorSession(s, inStore, killed, failed) ==
  LET st == IF s.Type = TypeShell /\ ~inStore THEN s
            ELSE [s EXCEPT !.Status = StatusStopped, !.stoppedAt = now]
      ec == IF s.Type = TypeExec \/ (s.Type = TypeShell /\ inStore)
              THEN [st EXCEPT !.ExitCode = MonitorExitCode(killed, failed)]
              ELSE st
      rd == IF s.Type = TypeExec /\ failed THEN ReadOutput(ec) ELSE ec
  IN  IF s.Type = TypePortForward THEN rd ELSE [rd EXCEPT !.TempFiles = {}]

MonitorFiles(s) == IF s.Type = TypePortForward THEN {} ELSE s.TempFiles

Monitor(i) ==
  /\ proc[i] \in {"exited", "killed"}
  /\ ~reaped[i]
  /\ reaped' = [reaped EXCEPT ![i] = TRUE]
  /\ \E failed \in BOOLEAN :
       /\ proc[i] = "killed" => failed
       /\ sess[i].Type # TypeExec => failed = (proc[i] = "killed")
       /\ sess' = [sess EXCEPT ![i] = MonitorSession(sess[i], Get(i), proc[i] = "killed", failed)]
  /\ disk' = disk \ MonitorFiles(sess[i])
  /\ UNCHANGED <<sessions, proc, clusters, nextId, wk, now, lastPass, main, fin, fout, logger>>

(***************************************************************************)
(* The evictor.                                                            *)
(***************************************************************************)
\* Manager.completedTimeout and Manager.inactivityTimeout in clock ticks (the
\* defaults are 5 and 30 minutes; SetCompletedTimeout and SetInactivityTimeout
\* change them)
CompletedTimeout == 2
InactivityTimeout == 4

\* Manager.cleanupInterval in clock ticks (the default is 1 minute)
CleanupInterval == 1

\* an evictor that knows only the inactivity rule
ToRemoveInactive ==
  {id \in sessions :
     sess[id].Status # StatusStopped /\ now - sess[id].lastReadTime > InactivityTimeout}

\* a rule that looks at the inactivity timeout only
shouldRemoveInactive(status, idle, completedTimeout, inactivityTimeout) ==
  idle > inactivityTimeout

\* cleanupInactiveSessions: shouldRemove for one session
shouldRemove(status, idle, completedTimeout, inactivityTimeout) ==
  IF status = StatusStopped \/ status = StatusFailed
    THEN idle > completedTimeout
    ELSE idle > inactivityTimeout

\* cleanupInactiveSessions: the ids of toRemove under the given timeouts
ToRemoveWith(completedTimeout, inactivityTimeout) ==
  {id \in sessions :
     shouldRemove(sess[id].Status, now - sess[id].lastReadTime,
                  completedTimeout, inactivityTimeout)}

ToRemove == ToRemoveWith(CompletedTimeout, InactivityTimeout)

\* one pass: kill, unlink the temp files, delete (the status is left as it is)
EvictPass ==
  /\ ToRemove # {}
  /\ proc' = StopKill(proc, ToRemove)
  /\ disk' = StopFiles(disk, sess, ToRemove)
  /\ sessions' = StopDelete(ToRemove)
  /\ sess' = StopTeardown(sess, ToRemove)
  /\ UNCHANGED <<reaped, clusters, nextId, wk, now, lastPass, main, fin, fout, logger>>

Tick ==
  /\ now < MaxTime
  /\ now' = now + 1
  /\ UNCHANGED <<sessions, sess, proc, reaped, disk, clusters, nextId, wk, lastPass, main, fin, fout, logger>>

(***************************************************************************)
(* The proxy supervisor and the proxy router under two concurrent request  *)
(* workers (the clock stands still).                                       *)
(***************************************************************************)
\* what the app sends to POST /proxy/start
ProxyReqClusters == {<<"", "dev">>, <<"", "prod-786">>, <<"k", "p:q">>, <<"", "">>}
ProxyReqHashes == {NoHash, ComputeHash("", "dev")}
RouteHashes == {ComputeHash("", "dev"), ComputeHash("", "prod-786")}

Next ==
  \/ \E t \in Workers, cl \in ProxyReqClusters, h \in ProxyReqHashes, port \in ReqPorts :
       ProxyStartBegin(t, cl[1], cl[2], h, port)
  \/ \E t \in Workers : ProxyPreempt(t)
  \/ \E t \in Workers : StartCreate(t)
  \/ \E t \in Workers : StartSetHash(t)
  \/ \E t \in Workers : StartLaunch(t)
  \/ \E t \in Workers : StartLaunchFailEarly(t)
  \/ \E t \in Workers : StartLaunchFailStart(t)
  \/ \E t \in Workers : ProbeExited(t)
  \/ \E t \in Workers : ProbeReady(t)
  \/ \E t \in Workers : ProbeRetry(t)
  \/ \E t \in Workers, h \in RouteHashes : RouteBegin(t, h)
  \/ \E t \in Workers : RouteForward(t)
  \/ \E t \in Workers, id \in 1..(nextId - 1), h \in ProxyReqHashes : StopReq(t, id, h)
  \/ \E t \in Workers : Finish(t)
  \/ \E i \in Ids : ProcBind(i)
  \/ \E i \in Ids : ProcExit(i)
  \/ \E i \in Ids : Monitor(i)

Spec == Init /\ [][Next]_vars

(***************************************************************************)
(* The four start endpoints, the stop and output endpoints under one       *)
(* request worker.                                                         *)
(***************************************************************************)
Solo == {"w1"}
StartReqClusters == {<<"", "dev">>, <<"k", "p:q">>, <<"", "">>}
StartReqHashes == {NoHash, ComputeHash("", "dev"), ComputeHash("k", "p:q")}

NextStart ==
  \/ \E t \in Solo, cl \in StartReqClusters, h \in StartReqHashes, port \in ReqPorts :
       ProxyStartBegin(t, cl[1], cl[2], h, port)
  \/ \E t \in Solo : ProxyPreempt(t)
  \/ \E t \in Solo, ep \in StartEndpoints, cl \in StartReqClusters, h \in StartReqHashes :
       StartBegin(t, ep, cl[1], cl[2], h)
  \/ \E t \in Solo : StartCreate(t)
  \/ \E t \in Solo : StartSetHash(t)
  \/ \E t \in Solo : StartLaunch(t)
  \/ \E t \in Solo : StartLaunchFailEarly(t)
  \/ \E t \in Solo : StartLaunchFailStart(t)
  \/ \E t \in Solo : ProbeExited(t)
  \/ \E t \in Solo : ProbeReady(t)
  \/ \E t \in Solo : ProbeRetry(t)
  \/ \E t \in Solo, id \in 1..(nextId - 1), h \in StartReqHashes : StopReq(t, id, h)
  \/ \E t \in Solo, id \in 1..(nextId - 1), h \in StartReqHashes : OutputReq(t, id, h)
  \/ \E t \in Solo, id \in 1..(nextId - 1), h \in StartReqHashes : InputReq(t, id, h)
  \/ \E t \in Solo : Finish(t)
  \/ \E i \in Ids : ProcBind(i)
  \/ \E i \in Ids : ProcExit(i)
  \/ \E i \in Ids : Monitor(i)

SpecStart == Init /\ [][NextStart]_vars

(***************************************************************************)
(* The proxy endpoints under one request worker, with clusters whose       *)
(* hashes are assigned the same port.                                      *)
(***************************************************************************)
NextPreempt ==
  \/ \E t \in Solo, cl \in ProxyReqClusters, h \in ProxyReqHashes, port \in ReqPorts :
       ProxyStartBegin(t, cl[1], cl[2], h, port)
  \/ \E t \in Solo : ProxyPreempt(t)
  \/ \E t \in Solo : StartCreate(t)
  \/ \E t \in Solo : StartSetHash(t)
  \/ \E t \in Solo : StartLaunch(t)
  \/ \E t \in Solo : StartLaunchFailEarly(t)
  \/ \E t \in Solo : StartLaunchFailStart(t)
  \/ \E t \in Solo : ProbeExited(t)
  \/ \E t \in Solo : ProbeReady(t)
  \/ \E t \in Solo : ProbeRetry(t)
  \/ \E t \in Solo, id \in 1..(nextId - 1), h \in ProxyReqHashes : StopReq(t, id, h)
  \/ \E t \in Solo, h \in StartReqHashes : CleanupReq(t, h)
  \/ \E t \in Solo : Finish(t)
  \/ \E i \in Ids : ProcBind(i)
  \/ \E i \in Ids : ProcExit(i)
  \/ \E i \in Ids : Monitor(i)

SpecPreempt == Init /\ [][NextPreempt]_vars

(***************************************************************************)
(* The exec and shell sessions under the clock and the evictor.            *)
(***************************************************************************)
TimedEndpoints == {TypeExec, TypeShell}
TimedClusters == {<<"k", "p:q">>}

NextTime ==
  \/ \E t \in Solo, ep \in TimedEndpoints, cl \in TimedClusters :
       StartBegin(t, ep, cl[1], cl[2], NoHash)
  \/ \E t \in Solo : StartCreate(t)
  \/ \E t \in Solo : StartSetHash(t)
  \/ \E t \in Solo : StartLaunch(t)
  \/ \E t \in Solo, id \in 1..(nextId - 1) : StopReq(t, id, NoHash)
  \/ \E t \in Solo, id \in 1..(nextId - 1) : OutputReq(t, id, NoHash)
  \/ \E t \in Solo : Finish(t)
  \/ \E i \in Ids : ProcExit(i)
  \/ \E i \in Ids : Monitor(i)
  \/ EvictPass
  \/ Tick

SpecTime == Init /\ [][NextTime]_vars

(***************************************************************************)
(* The same sessions with the evictor's ticker: cleanupLoop runs           *)
(* cleanupInactiveSessions each time cleanupInterval has passed.           *)
(***************************************************************************)
\* case <-ticker.C: m.cleanupInactiveSessions()
TickerPass ==
  /\ now - lastPass = CleanupInterval
  /\ lastPass' = now
  /\ proc' = StopKill(proc, ToRemove)
  /\ disk' = StopFiles(disk, sess, ToRemove)
  /\ sessions' = StopDelete(ToRemove)
  /\ sess' = StopTeardown(sess, ToRemove)
  /\ UNCHANGED <<reaped, clusters, nextId, wk, now, main, fin, fout, logger>>

\* the clock advances up to the next firing of the ticker
TickToPass ==
  /\ now - lastPass < CleanupInterval
  /\ Tick

NextEvict ==
  \/ \E t \in Solo, ep \in TimedEndpoints, cl \in TimedClusters :
       StartBegin(t, ep, cl[1], cl[2], NoHash)
  \/ \E t \in Solo : StartCreate(t)
  \/ \E t \in Solo : StartSetHash(t)
  \/ \E t \in Solo : StartLaunch(t)
  \/ \E t \in Solo, id \in 1..(nextId - 1) : StopReq(t, id, NoHash)
  \/ \E t \in Solo, id \in 1..(nextId - 1) : OutputReq(t, id, NoHash)
  \/ \E t \in Solo : Finish(t)
  \/ \E i \in Ids : ProcExit(i)
  \/ \E i \in Ids : Monitor(i)
  \/ TickerPass
  \/ TickToPass

SpecEvict == Init /\ [][NextEvict]_vars

(***************************************************************************)
(* POST /exec under the clock, with two request workers.                   *)
(***************************************************************************)
NextExec ==
  \/ \E t \in Workers, cl \in TimedClusters, h \in ProxyReqHashes, timeout \in ExecTimeouts :
       ExecuteBegin(t, cl[1], cl[2], h, timeout)
  \/ \E t \in Workers : ExecuteRun(t)
  \/ \E t \in Workers, cmd \in {"exit0", "exit1"} : CmdExit(t, cmd)
  \/ \E t \in Workers : CmdDeadline(t)
  \/ \E t \in Workers : ExecuteWait(t)
  \/ \E t \in Workers : Finish(t)
  \/ Tick

SpecExec == Init /\ [][NextExec]_vars

(***************************************************************************)
(* The exec and shell sessions with the output pumps, under two request    *)
(* workers.                                                                *)
(***************************************************************************)
NextOutput ==
  \/ \E t \in Workers, ep \in TimedEndpoints, cl \in TimedClusters :
       StartBegin(t, ep, cl[1], cl[2], NoHash)
  \/ \E t \in Workers : StartCreate(t)
  \/ \E t \in Workers : StartSetHash(t)
  \/ \E t \in Workers : StartLaunch(t)
  \/ \E t \in Workers : StartLaunchFailEarly(t)
  \/ \E t \in Workers : StartLaunchFailStart(t)
  \/ \E t \in Workers, id \in 1..(nextId - 1) : StopReq(t, id, NoHash)
  \/ \E t \in Workers, id \in 1..(nextId - 1) : OutputReq(t, id, NoHash)
  \/ \E t \in Workers : Finish(t)
  \/ \E i \in Ids, p \in OutputBytes : Write(i, <<p>>)
  \/ \E i \in Ids : ProcExit(i)
  \/ \E i \in Ids : Monitor(i)

SpecOutput == Init /\ [][NextOutput]_vars

(***************************************************************************)
(* cluster.ValidateHash applied to the hash of another (kubeconfig,        *)
(* context) pair.                                                          *)
(***************************************************************************)
InitHash ==
  /\ Init!1 /\ Init!2 /\ Init!3 /\ Init!4 /\ Init!5 /\ Init!6 /\ Init!7 /\ Init!8
  /\ Init!9 /\ Init!10 /\ Init!13 /\ Init!14
  /\ fin \in [k1 : Kubeconfigs, c1 : Contexts, k2 : Kubeconfigs, c2 : Contexts]
  /\ fout = << >>

\* hash := ComputeHash(k1, c1); ok := ValidateHash(hash, k2, c2)
ApplyValidateHash ==
  /\ fout = << >>
  /\ fout' = [hash |-> ComputeHash(fin.k1, fin.c1),
              ok |-> ValidateHash(ComputeHash(fin.k1, fin.c1), fin.k2, fin.c2)]
  /\ UNCHANGED <<sessions, sess, proc, reaped, disk, clusters, nextId, wk, now, lastPass, main, fin, logger>>

NextHash == ApplyValidateHash

SpecHash == InitHash /\ [][NextHash]_vars

(***************************************************************************)
(* The registry under direct calls of Register, ComputeAndRegister and     *)
(* Lookup.                                                                 *)
(***************************************************************************)
RegistryHashes == {NoHash, ComputeHash("", "dev"), ComputeHash("k", "p:q")}
RegistryClusters == {<<"", "">>, <<"", "dev">>, <<"k", "p:q">>, <<"k:p", "q">>}

NoCall == [op |-> "", hash |-> NoHash, k |-> "", c |-> ""]

InitRegistry ==
  /\ Init!1 /\ Init!2 /\ Init!3 /\ Init!4 /\ Init!5 /\ Init!6 /\ Init!7 /\ Init!8
  /\ Init!9 /\ Init!10 /\ Init!13 /\ Init!14
  /\ fin = NoCall
  /\ fout = << >>

RegisterCall(hash, k, c) ==
  /\ clusters' = Register(clusters, hash, k, c)
  /\ fin' = [op |-> "Register", hash |-> hash, k |-> k, c |-> c]
  /\ fout' = << >>
  /\ UNCHANGED <<sessions, sess, proc, reaped, disk, nextId, wk, now, lastPass, main, logger>>

ComputeAndRegisterCall(k, c) ==
  /\ clusters' = ComputeAndRegister(clusters, k, c)
  /\ fin' = [op |-> "ComputeAndRegister", hash |-> NoHash, k |-> k, c |-> c]
  /\ fout' = ComputeHash(k, c)
  /\ UNCHANGED <<sessions, sess, proc, reaped, disk, nextId, wk, now, lastPass, main, logger>>

LookupCall(hash) ==
  /\ fin' = [op |-> "Lookup", hash |-> hash, k |-> "", c |-> ""]
  /\ fout' = IF LookupFound(clusters, hash)
               THEN <<clusters[hash].Kubeconfig, clusters[hash].Context, TRUE>>
               ELSE <<"", "", FALSE>>
  /\ UNCHANGED <<sessions, sess, proc, reaped, disk, clusters, nextId, wk, now, lastPass, main, logger>>

NextRegistry ==
  \/ \E hash \in RegistryHashes, cl \in RegistryClusters : RegisterCall(hash, cl[1], cl[2])
  \/ \E cl \in RegistryClusters : ComputeAndRegisterCall(cl[1], cl[2])
  \/ \E hash \in RegistryHashes : LookupCall(hash)

SpecRegistry == InitRegistry /\ [][NextRegistry]_vars

(***************************************************************************)
(* assignPortForCluster called twice on one hash.                          *)
(***************************************************************************)
\* the hashes: every string of at most MaxHashLen of these characters
MaxHashLen == 5
HashChars == {"0", "9", "a", "f", "F", "g"}

InitPort ==
  /\ Init!1 /\ Init!2 /\ Init!3 /\ Init!4 /\ Init!5 /\ Init!6 /\ Init!7 /\ Init!8
  /\ Init!9 /\ Init!10 /\ Init!13 /\ Init!14
  /\ fin \in UNION {[1..n -> HashChars] : n \in 0..MaxHashLen}
  /\ fout = << >>

AssignPortCall ==
  /\ Len(fout) < 2
  /\ fout' = Append(fout, assignPortForCluster(fin))
  /\ UNCHANGED <<sessions, sess, proc, reaped, disk, clusters, nextId, wk, now, lastPass, main, fin, logger>>

NextPort == AssignPortCall

SpecPort == InitPort /\ [][NextPort]_vars

(***************************************************************************)
(* injectKubectlContext.  A string is the sequence of its pieces: a piece  *)
(* is a word, one whitespace character, an operator or a flag; the context *)
(* "a$1" is the pieces "a" and "$1".                                       *)
(***************************************************************************)
MaxCmdLen == 4
CmdPieces == {"kubectl", "x", " ", "\t", "|", "--context=o"}
InjectContexts == {<< >>, <<"dev">>, <<"a", "$1">>}

\* \s
IsSpace(piece) == piece \in {" ", "\t"}

\* the piece ends with a word character (\w)
EndsWithWord(piece) == piece \in {"kubectl", "x", "--context=o", "dev", "a"}

\* strings.Contains(command, "--context")
ContainsContextFlag(command) == \E i \in 1..Len(command) : command[i] = "--context=o"

\* the end of the run of whitespace that starts at i (\s+ is greedy)
RECURSIVE SpaceRunEnd(_, _)
SpaceRunEnd(command, i) ==
  IF i < Len(command) /\ IsSpace(command[i + 1]) THEN SpaceRunEnd(command, i + 1) ELSE i

\* \bkubectl\b(\s+) matches at i
MatchesAt(command, i) ==
  /\ command[i] = "kubectl"
  /\ i = 1 \/ ~EndsWithWord(command[i - 1])
  /\ i < Len(command) /\ IsSpace(command[i + 1])

\* Regexp.expand of a template on a match whose group 1 is ws: "$1" stands for
\* the group, every other piece of the model for itself
RECURSIVE Expand(_, _)
Expand(template, ws) ==
  IF template = << >> THEN << >>
  ELSE (IF Head(template) = "$1" THEN ws ELSE <<Head(template)>>)
       \o Expand(Tail(template), ws)

\* ReplaceAllString(command, template) from position i on: the matches are
\* taken leftmost and do not overlap
RECURSIVE ReplaceAllFrom(_, _, _)
ReplaceAllFrom(command, template, i) ==
  IF i > Len(command) THEN << >>
  ELSE IF MatchesAt(command, i)
    THEN LET j == SpaceRunEnd(command, i + 1)
         IN  Expand(template, SubSeq(command, i + 1, j))
             \o ReplaceAllFrom(command, template, j + 1)
    ELSE <<command[i]>> \o ReplaceAllFrom(command, template, i + 1)

injectKubectlContext(command, context) ==
  IF context = << >> THEN command
  ELSE IF ContainsContextFlag(command) THEN command
  ELSE ReplaceAllFrom(command, <<"kubectl", " ", "--context=">> \o context \o <<"$1">>, 1)

InitInject ==
  /\ Init!1 /\ Init!2 /\ Init!3 /\ Init!4 /\ Init!5 /\ Init!6 /\ Init!7 /\ Init!8
  /\ Init!9 /\ Init!10 /\ Init!13 /\ Init!14
  /\ fin \in [command : UNION {[1..n -> CmdPieces] : n \in 0..MaxCmdLen},
               context : InjectContexts]
  /\ fout = <<"none">>

\* ShellHandler.Start: command = injectKubectlContext(command, req.Context)
InjectCall ==
  /\ fout = <<"none">>
  /\ fout' = <<"ok", injectKubectlContext(fin.command, fin.context)>>
  /\ UNCHANGED <<sessions, sess, proc, reaped, disk, clusters, nextId, wk, now, lastPass, main, fin, logger>>

NextInject == InjectCall

SpecInject == InitInject /\ [][NextInject]_vars

(***************************************************************************)
(* Graceful shutdown: main closes stopCleanup, stops all sessions and      *)
(* shuts the HTTP server down, while a request worker and the evictor run. *)
(***************************************************************************)
\* Manager.StopAll: kill, status, temp files for every session, then a new map
StopAll == Stop(sessions)

\* the signal has arrived: sessionMgr.Shutdown() closes stopCleanup and returns
MainShutdown ==
  /\ main.pc = "serving"
  /\ main' = [main EXCEPT !.pc = "shutdown", !.stopCleanup = TRUE]
  /\ UNCHANGED <<sessions, sess, proc, reaped, disk, clusters, nextId, wk, now, lastPass, fin, fout, logger>>

\* sessionMgr.StopAll()
MainStopAll ==
  /\ main.pc = "shutdown"
  /\ StopAll
  /\ main' = [main EXCEPT !.pc = "stopall"]
  /\ UNCHANGED <<reaped, clusters, nextId, wk, now, lastPass, fin, fout, logger>>

\* server.Shutdown(ctx) returns once no request is being served, and main ends
MainServerShutdown ==
  /\ main.pc = "stopall"
  /\ \A t \in Solo : wk[t].pc = "idle"
  /\ main' = [main EXCEPT !.pc = "closed"]
  /\ UNCHANGED <<sessions, sess, proc, reaped, disk, clusters, nextId, wk, now, lastPass, fin, fout, logger>>

\* cleanupLoop, case <-ticker.C: the select has chosen the ticker
EvictorWake ==
  /\ main.cleanupLoop = "select"
  /\ now - lastPass = CleanupInterval
  /\ lastPass' = now
  /\ main' = [main EXCEPT !.cleanupLoop = "pass"]
  /\ UNCHANGED <<sessions, sess, proc, reaped, disk, clusters, nextId, wk, now, fin, fout, logger>>

\* m.cleanupInactiveSessions(), once it holds the mutex, then back to the select
EvictorPass ==
  /\ main.cleanupLoop = "pass"
  /\ proc' = StopKill(proc, ToRemove)
  /\ disk' = StopFiles(disk, sess, ToRemove)
  /\ sessions' = StopDelete(ToRemove)
  /\ sess' = StopTeardown(sess, ToRemove)
  /\ main' = [main EXCEPT !.cleanupLoop = "select"]
  /\ UNCHANGED <<reaped, clusters, nextId, wk, now, lastPass, fin, fout, logger>>

\* cleanupLoop, case <-m.stopCleanup: return
EvictorReturn ==
  /\ main.cleanupLoop = "select"
  /\ main.stopCleanup
  /\ main' = [main EXCEPT !.cleanupLoop = "returned"]
  /\ UNCHANGED <<sessions, sess, proc, reaped, disk, clusters, nextId, wk, now, lastPass, fin, fout, logger>>

\* the clock advances unless a cleanupLoop blocked in its select has a channel
\* ready: a goroutine blocked in select is woken at once
TickLoop ==
  /\ main.cleanupLoop = "select" =>
       (~main.stopCleanup /\ now - lastPass < CleanupInterval)
  /\ Tick

ShutdownHashes == {ComputeHash("k", "p:q")}

\* the program: false once main has ended
Serving == main.pc # "closed"

NextShutdown ==
  \/ \E t \in Solo, cl \in TimedClusters :
       Serving /\ StartBegin(t, TypeShell, cl[1], cl[2], NoHash)
  \/ \E t \in Solo : StartCreate(t)
  \/ \E t \in Solo : StartSetHash(t)
  \/ \E t \in Solo : StartLaunch(t)
  \/ \E t \in Solo, id \in 1..(nextId - 1) : Serving /\ StopReq(t, id, NoHash)
  \/ \E t \in Solo, h \in ShutdownHashes : Serving /\ CleanupReq(t, h)
  \/ \E t \in Solo : Finish(t)
  \/ \E i \in Ids : Serving /\ Monitor(i)
  \/ \E i \in Ids : ProcExit(i)
  \/ MainShutdown
  \/ MainStopAll
  \/ MainServerShutdown
  \/ Serving /\ EvictorWake
  \/ Serving /\ EvictorPass
  \/ Serving /\ EvictorReturn
  \/ TickLoop

SpecShutdown == Init /\ [][NextShutdown]_vars

(***************************************************************************)
(* The exec and shell sessions with their output pumps and the steps of    *)
(* the exec monitor, polled by one request worker.                         *)
(***************************************************************************)
\* the child writes to its stdout or stderr
ChildWrite(i, p) ==
  /\ Alive(proc[i])
  /\ sess[i].Type \in {TypeExec, TypeShell}
  /\ Len(sess[i].childOut) < MaxOutput
  /\ sess' = [sess EXCEPT ![i].childOut = @ \o p]
  /\ UNCHANGED <<sessions, proc, reaped, disk, clusters, nextId, wk, now, lastPass, main, fin, fout, logger>>

\* cmd.Wait has returned in the monitor of an exec session and has closed the
\* parent's ends of the pipes of StdoutPipe and StderrPipe
WaitReturned(i) == sess[i].Type = TypeExec /\ sess[i].Status = StatusStopped

\* a pump (io.Copy for exec, the copying goroutine of os/exec for shell) moves
\* what it reads from the pipe to the session's buffer
Pump(i) ==
  /\ ~reaped[i]
  /\ ~WaitReturned(i)
  /\ Len(sess[i].outputBuffer) < Len(sess[i].childOut)
  /\ sess' = [sess EXCEPT ![i].outputBuffer =
                BufferWrite(@, <<sess[i].childOut[Len(sess[i].outputBuffer) + 1]>>)]
  /\ UNCHANGED <<sessions, proc, reaped, disk, clusters, nextId, wk, now, lastPass, main, fin, fout, logger>>

\* the monitor of an exec session up to its Sleep: cmd.Wait, sess.Status
MonitorWait(i) ==
  /\ sess[i].Type = TypeExec
  /\ proc[i] \in {"exited", "killed"}
  /\ ~reaped[i]
  /\ sess[i].Status # StatusStopped
  /\ sess' = [sess EXCEPT ![i].Status = StatusStopped, ![i].stoppedAt = now]
  /\ UNCHANGED <<sessions, proc, reaped, disk, clusters, nextId, wk, now, lastPass, main, fin, fout, logger>>

\* the rest of the monitor: for exec what follows the Sleep; for shell all of
\* it, where cmd.Wait returns once the copying to cmd.Stdout has ended
MonitorRest(i) ==
  /\ sess[i].Type = TypeExec => sess[i].Status = StatusStopped
  /\ sess[i].Type = TypeShell => sess[i].outputBuffer = sess[i].childOut
  /\ Monitor(i)

NextPoll ==
  \/ \E t \in Solo, ep \in TimedEndpoints, cl \in TimedClusters :
       StartBegin(t, ep, cl[1], cl[2], NoHash)
  \/ \E t \in Solo : StartCreate(t)
  \/ \E t \in Solo : StartSetHash(t)
  \/ \E t \in Solo : StartLaunch(t)
  \/ \E t \in Solo, id \in 1..(nextId - 1) : OutputReq(t, id, NoHash)
  \/ \E t \in Solo : Finish(t)
  \/ \E i \in Ids, p \in OutputBytes : ChildWrite(i, <<p>>)
  \/ \E i \in Ids : Pump(i)
  \/ \E i \in Ids : ProcExit(i)
  \/ \E i \in Ids : MonitorWait(i)
  \/ \E i \in Ids : MonitorRest(i)

SpecPoll == Init /\ [][NextPoll]_vars

(***************************************************************************)
(* The proxy and port-forward sessions under the clock, the evictor's      *)
(* ticker, the router and the output endpoints.                            *)
(***************************************************************************)
UnreadEndpoints == {TypeProxy, TypePortForward}
UnreadClusters == {<<"", "dev">>}

NextUnread ==
  \/ \E t \in Solo, cl \in UnreadClusters :
       ProxyStartBegin(t, cl[1], cl[2], NoHash, 0)
  \/ \E t \in Solo : ProxyPreempt(t)
  \/ \E t \in Solo, cl \in UnreadClusters :
       StartBegin(t, TypePortForward, cl[1], cl[2], NoHash)
  \/ \E t \in Solo : StartCreate(t)
  \/ \E t \in Solo : StartSetHash(t)
  \/ \E t \in Solo : StartLaunch(t)
  \/ \E t \in Solo : ProbeExited(t)
  \/ \E t \in Solo : ProbeReady(t)
  \/ \E t \in Solo : ProbeRetry(t)
  \/ \E t \in Solo, cl \in UnreadClusters : RouteBegin(t, ComputeHash(cl[1], cl[2]))
  \/ \E t \in Solo : RouteForward(t)
  \/ \E t \in Solo, id \in 1..(nextId - 1) : OutputReq(t, id, NoHash)
  \/ \E t \in Solo : Finish(t)
  \/ \E i \in Ids : ProcBind(i)
  \/ \E i \in Ids : ProcExit(i)
  \/ \E i \in Ids : Monitor(i)
  \/ TickerPass
  \/ TickToPass

SpecUnread == Init /\ [][NextUnread]_vars

(***************************************************************************)
(* One pass of the evictor over any store and any pair of timeouts         *)
(* (SetCompletedTimeout, SetInactivityTimeout).                            *)
(***************************************************************************)
MaxIdle == 3
PassStatuses == {StatusRunning, StatusStopped, StatusFailed}

\* fin is the pair of timeouts of the Manager
InitPass ==
  /\ now = MaxIdle
  /\ sessions = Ids
  /\ \E st \in [Ids -> PassStatuses], rd \in [Ids -> 0..MaxIdle] :
       /\ sess = [i \in Ids |->
                    [NewSession(TypeExec) EXCEPT !.Status = st[i],
                                                 !.lastReadTime = rd[i]]]
       /\ proc = [i \in Ids |-> IF st[i] = StatusRunning THEN "started" ELSE "exited"]
       /\ reaped = [i \in Ids |-> st[i] # StatusRunning]
  /\ Init!5 /\ Init!6 /\ Init!8 /\ Init!10 /\ Init!13 /\ Init!14
  /\ nextId = MaxSessions + 1
  /\ fin \in [completedTimeout : 0..MaxIdle, inactivityTimeout : 0..MaxIdle]
  /\ fout = << >>

\* cleanupInactiveSessions under the timeouts of fin
PassCall ==
  /\ fout = << >>
  /\ fout' = <<"pass">>
  /\ LET toRemove == ToRemoveWith(fin.completedTimeout, fin.inactivityTimeout)
     IN  /\ proc' = StopKill(proc, toRemove)
         /\ disk' = StopFiles(disk, sess, toRemove)
         /\ sessions' = StopDelete(toRemove)
         /\ sess' = StopTeardown(sess, toRemove)
  /\ UNCHANGED <<reaped, clusters, nextId, wk, now, lastPass, main, fin, logger>>

NextPass == PassCall

SpecPass == InitPass /\ [][NextPass]_vars

(***************************************************************************)
(* The proxy endpoints under one request worker, with two clusters of      *)
(* different contexts whose (kubeconfig, context) pairs have the same      *)
(* hash.                                                                   *)
(***************************************************************************)
ReuseClusters == {<<"k", "p:q">>, <<"k:p", "q">>, <<"", "dev">>}

NextReuse ==
  \/ \E t \in Solo, cl \in ReuseClusters, port \in ReqPorts :
       ProxyStartBegin(t, cl[1], cl[2], NoHash, port)
  \/ \E t \in Solo : ProxyPreempt(t)
  \/ \E t \in Solo : StartCreate(t)
  \/ \E t \in Solo : StartSetHash(t)
  \/ \E t \in Solo : StartLaunch(t)
  \/ \E t \in Solo : ProbeExited(t)
  \/ \E t \in Solo : ProbeReady(t)
  \/ \E t \in Solo : ProbeRetry(t)
  \/ \E t \in Solo, id \in 1..(nextId - 1) : StopReq(t, id, NoHash)
  \/ \E t \in Solo : Finish(t)
  \/ \E i \in Ids : ProcBind(i)
  \/ \E i \in Ids : ProcExit(i)
  \/ \E i \in Ids : Monitor(i)

SpecReuse == Init /\ [][NextReuse]_vars

(***************************************************************************)
(* The claims.                                                             *)
(***************************************************************************)

\* C1: a response the router gives to a request for /proxy/H/... never comes
\* from a kubectl proxy that was launched for a cluster hash other than H,
\* whatever the interleaving with proxy starts, preemptions and stops.
C1_RouterServesOwnCluster ==
  \A t \in Workers :
    (wk[t].pc = "done" /\ wk[t].req.ep = "route" /\ wk[t].resp.served # 0)
      => sess[wk[t].resp.served].ClusterHash = wk[t].req.h

\* C2: in every reachable state at most one running proxy session exists per
\* (non-empty) cluster hash.
C2_OneRunningProxyPerHash ==
  \A i \in sessions, j \in sessions :
    (/\ i # j
     /\ sess[i].Type = TypeProxy /\ sess[j].Type = TypeProxy
     /\ sess[i].Status = StatusRunning /\ sess[j].Status = StatusRunning
     /\ sess[i].ClusterHash # NoHash)
      => sess[i].ClusterHash # sess[j].ClusterHash

\* C3: in every reachable state no two running proxy sessions with different
\* (non-empty) cluster hashes have the same port.
C3_NoSharedPortAcrossClusters ==
  \A i \in sessions, j \in sessions :
    (/\ sess[i].Type = TypeProxy /\ sess[j].Type = TypeProxy
     /\ sess[i].Status = StatusRunning /\ sess[j].Status = StatusRunning
     /\ sess[i].ClusterHash # NoHash /\ sess[j].ClusterHash # NoHash
     /\ sess[i].ClusterHash # sess[j].ClusterHash)
      => sess[i].Port # sess[j].Port

\* C4: when the router opens an upstream connection for /proxy/H/..., the port
\* it connects to is at that moment the stored port of a session in the store
\* that is a running proxy with cluster hash H; when the selected session's
\* hash is not H the answer is 403 and no connection is opened.
C4_UpstreamIsRunningProxyOfH ==
  [][\A t \in Workers :
       (wk[t].pc = "forward" /\ wk'[t].pc = "done")
         => /\ wk'[t].resp.served # 0
                 => \E j \in sessions :
                      /\ sess[j].Port = sess[wk[t].sid].Port
                      /\ sess[j].Type = TypeProxy
                      /\ sess[j].Status = StatusRunning
                      /\ sess[j].ClusterHash = wk[t].req.h
            /\ sess[wk[t].sid].ClusterHash # wk[t].req.h
                 => wk'[t].resp.code = 403 /\ wk'[t].resp.served = 0]_vars

C6_OtherClusterNeverValidates ==
  (fout # << >> /\ <<fin.k1, fin.c1>> # <<fin.k2, fin.c2>>) => ~fout.ok

\* C7: on each of the four start endpoints a request with a clusterHash and a
\* non-empty kubeconfig or context whose recomputed hash differs is answered
\* 400, and neither a session nor a child process comes of it.
C7_MismatchRejected ==
  [][\A t \in Workers :
       (/\ wk[t].pc = "idle" /\ wk'[t].pc # "idle"
        /\ wk'[t].req.ep \in StartEndpoints
        /\ wk'[t].req.h # NoHash
        /\ wk'[t].req.k # "" \/ wk'[t].req.c # ""
        /\ wk'[t].req.h # ComputeHash(wk'[t].req.k, wk'[t].req.c))
         => /\ wk'[t].pc = "done" /\ wk'[t].resp.code = 400
            /\ sessions' = sessions /\ nextId' = nextId /\ proc' = proc]_vars

\* C7: each endpoint has answered such a request (here: the last one answered)
C7_Witness ==
  \E t \in Workers :
    /\ wk[t].pc = "done" /\ wk[t].req.ep \in StartEndpoints
    /\ wk[t].req.h # NoHash /\ wk[t].req.k # ""
    /\ wk[t].req.h # ComputeHash(wk[t].req.k, wk[t].req.c)
    /\ wk[t].resp.code = 400
    /\ nextId > 1

\* C8: on every start endpoint, /proxy/start included, a request that carries
\* only a clusterHash is resolved through the registry: a registered hash (with
\* an entry that hashes to it) lets the request proceed with the registered
\* kubeconfig and context, an unknown hash is answered 400.
C8_HashOnlyResolvedByRegistry ==
  [][\A t \in Workers :
       (/\ wk[t].pc = "idle" /\ wk'[t].pc # "idle"
        /\ wk'[t].req.ep \in StartEndpoints
        /\ wk'[t].req.h # NoHash /\ wk'[t].req.k = "" /\ wk'[t].req.c = "")
         => IF LookupFound(clusters, wk'[t].req.h)
              THEN ComputeHash(clusters[wk'[t].req.h].Kubeconfig,
                               clusters[wk'[t].req.h].Context) = wk'[t].req.h
                     => wk'[t].resp.code # 400
              ELSE wk'[t].pc = "done" /\ wk'[t].resp.code = 400]_vars

C10_StoppedKeptForCompletedTimeout ==
  [][EvictPass =>
       \A id \in ToRemove :
         sess[id].Status = StatusStopped
           => now - sess[id].stoppedAt >= CompletedTimeout]_vars

\* C11: with the evictor's ticker running, a stopped session is out of the
\* store once completedTimeout + cleanupInterval have passed since it stopped
\* and was last read, a running session once inactivityTimeout +
\* cleanupInterval have passed since its last read, and the pass that removes
\* a session leaves its process killed.
C11_EvictedWithinTimeoutPlusInterval ==
  [][/\ \A id \in sessions' :
          LET s == sess'[id]
              since == IF s.stoppedAt > s.lastReadTime THEN s.stoppedAt
                       ELSE s.lastReadTime
          IN  IF s.Status = StatusStopped
                THEN now' - since <= CompletedTimeout + CleanupInterval
                ELSE now' - s.lastReadTime <= InactivityTimeout + CleanupInterval
     /\ TickerPass =>
          \A id \in sessions \ sessions' : ~Alive(proc'[id])]_vars

\* C11: the evictor has killed and removed a running session nobody read
C11_Witness ==
  \E id \in 1..(nextId - 1) :
    /\ id \notin sessions
    /\ sess[id].Status = StatusRunning
    /\ proc[id] = "killed"
    /\ now - sess[id].lastReadTime > InactivityTimeout


\* C12: while a session is in the store its output buffer only grows (the old
\* content is a prefix of the new), and a read of the output that follows an
\* answered read of the same session returns a string that has the earlier
\* answer as a prefix, whatever the pumps wrote in between
C12_OutputOnlyGrows ==
  [][LET IsPrefix(a, b) == Len(a) <= Len(b) /\ SubSeq(b, 1, Len(a)) = a
     IN  /\ \A id \in sessions \cap sessions' :
               IsPrefix(sess[id].outputBuffer, sess'[id].outputBuffer)
         /\ \A t, u \in Workers :
               (/\ wk[t].pc = "done" /\ wk[t].req.ep = "output" /\ wk[t].resp.code = 200
                /\ wk[u].pc = "idle" /\ wk'[u].pc = "done" /\ wk'[u].req.ep = "output"
                /\ wk'[u].resp.code = 200 /\ wk'[u].resp.sid = wk[t].resp.sid)
               => IsPrefix(wk[t].resp.output, wk'[u].resp.output)]_vars

\* a read answered with one byte is still on its worker while a second read
\* of the same session has been answered with more
C12_Witness ==
  \E t, u \in Workers :
    /\ wk[t].pc = "done" /\ wk[t].req.ep = "output" /\ wk[t].resp.code = 200
    /\ wk[u].pc = "done" /\ wk[u].req.ep = "output" /\ wk[u].resp.code = 200
    /\ wk[u].resp.sid = wk[t].resp.sid
    /\ Len(wk[t].resp.output) = 1 /\ Len(wk[u].resp.output) = 2

\* C13: a POST /proxy/start for a (kubeconfig, context) for which an earlier
\* start has been answered and left a proxy session with status running in
\* the store is answered 200 with the id and the port of that session, and the
\* request creates no session and starts no process
C13_SecondStartReuses ==
  [][\A t \in Workers :
       LET req == wk'[t].req
           first == {i \in sessions :
                       /\ sess[i].Type = TypeProxy /\ sess[i].Status = StatusRunning
                       /\ sess[i].Kubeconfig = req.k /\ sess[i].Context = req.c
                       /\ \A u \in Workers : wk[u].sid # i}
       IN  (/\ wk[t].pc = "idle" /\ wk'[t].pc # "idle" /\ req.ep = TypeProxy
            /\ req.h \in {NoHash, ComputeHash(req.k, req.c)}
            /\ first # {})
           => /\ wk'[t].pc = "done" /\ wk'[t].resp.code = 200
              /\ \A i \in first : wk'[t].resp.sid = i /\ wk'[t].resp.port = sess[i].Port
              /\ sessions' = sessions /\ nextId' = nextId /\ proc' = proc]_vars

\* a start has been answered with the session of a proxy that is listening
C13_Witness ==
  \E t \in Workers :
    /\ wk[t].pc = "done" /\ wk[t].req.ep = TypeProxy /\ wk[t].resp.reused
    /\ wk[t].resp.sid \in sessions /\ proc[wk[t].resp.sid] = "listening"
    /\ wk[t].resp.port = assignPortForCluster(ComputeHash(wk[t].req.k, wk[t].req.c))

\* C14: when the handler of a proxy start creates its session, no proxy session
\* of a different hash with the assigned port is in the store and the process
\* of every such session is dead; when the start is answered 200 with a new
\* session, the proxy list holds the new session and no session of a different
\* hash on that port
C14_PreemptBeforeCreate ==
  [][\A t \in Workers :
       LET older == {i \in 1..(nextId - 1) :
                       /\ sess[i].Type = TypeProxy /\ sess[i].Port = wk[t].aport
                       /\ sess[i].ClusterHash # wk[t].h}
       IN  wk[t].req.ep = TypeProxy =>
             /\ (wk[t].pc = "create" /\ wk'[t].pc = "sethash")
                  => \A i \in older : i \notin sessions /\ ~Alive(proc[i])
             /\ (wk[t].pc = "probe" /\ wk'[t].pc = "done" /\ wk'[t].resp.code = 200)
                  => /\ wk'[t].resp.sid \in {i \in sessions' : sess'[i].Type = TypeProxy}
                     /\ older \cap sessions' = {}]_vars

\* a start has been answered with a new session on a port that a proxy of a
\* different hash held; that proxy is killed and out of the store
C14_Witness ==
  \E t \in Workers, i \in 1..(nextId - 1) :
    /\ wk[t].pc = "done" /\ wk[t].req.ep = TypeProxy /\ wk[t].resp.code = 200
    /\ ~wk[t].resp.reused /\ wk[t].resp.sid \in List(TypeProxy)
    /\ sess[i].Type = TypeProxy /\ sess[i].Port = wk[t].resp.port
    /\ sess[i].ClusterHash # wk[t].resp.h
    /\ i \notin sessions /\ proc[i] = "killed"

\* C15: a request to /proxy/{H}/... that arrives while the store holds no
\* session of type proxy with status running and hash H is answered 503 with
\* H in the body, and the handler ends there without connecting upstream
C15_NoRunningProxyIs503 ==
  [][\A t \in Workers :
       (/\ wk[t].pc = "idle" /\ wk'[t].req.ep = "route"
        /\ ~\E i \in sessions : /\ sess[i].Type = TypeProxy
                                 /\ sess[i].Status = StatusRunning
                                 /\ sess[i].ClusterHash = wk'[t].req.h)
       => /\ wk'[t].pc = "done" /\ wk'[t].resp.code = 503
          /\ wk'[t].resp.h = wk'[t].req.h /\ wk'[t].resp.served = 0]_vars

\* a 503 for H while the only proxy of H is in the store with status stopped,
\* its child having exited
C15_Witness ==
  \E t \in Workers, i \in sessions :
    /\ wk[t].pc = "done" /\ wk[t].req.ep = "route" /\ wk[t].resp.code = 503
    /\ sess[i].Type = TypeProxy /\ sess[i].ClusterHash = wk[t].req.h
    /\ sess[i].Status = StatusStopped /\ proc[i] = "exited"
    /\ FindByClusterHash(wk[t].req.h) = {i}

\* C16: a stop, output or input request whose clusterHash differs from the
\* hash stored in the session it addresses is answered 404, and the store,
\* the session objects, the processes and the temp files are as before
C16_WrongHashIs404 ==
  [][\A t \in Workers :
       LET req == wk'[t].req
       IN  (/\ wk[t].pc = "idle" /\ req.ep \in {"stop", "output", "input"}
            /\ req.h # NoHash /\ req.id \in sessions
            /\ sess[req.id].ClusterHash # req.h)
           => /\ wk'[t].pc = "done" /\ wk'[t].resp.code = 404
              /\ sessions' = sessions /\ sess' = sess /\ proc' = proc
              /\ disk' = disk]_vars

\* a stop with the hash of another cluster was answered 404 and the session
\* it addressed is in the store, running, its process alive
C16_Witness ==
  \E t \in Workers :
    /\ wk[t].pc = "done" /\ wk[t].req.ep = "stop" /\ wk[t].resp.code = 404
    /\ wk[t].req.id \in sessions /\ Alive(proc[wk[t].req.id])
    /\ sess[wk[t].req.id].Status = StatusRunning
    /\ sess[wk[t].req.id].ClusterHash \notin {NoHash, wk[t].req.h}

\* C17: a cleanup for hash h removes from the store exactly the sessions whose
\* clusterHash is h, each of them stopped and its process dead, answers with
\* their number, and leaves the session objects and the processes of the
\* sessions of other hashes as they were
C17_CleanupTakesOnlyItsHash ==
  [][\A t \in Workers :
       LET h == wk'[t].req.h
           mine == {i \in sessions : sess[i].ClusterHash = h}
       IN  (wk[t].pc = "idle" /\ wk'[t].req.ep = "cleanup" /\ h # NoHash)
           => /\ sessions' = sessions \ mine
              /\ wk'[t].resp.code = 200
              /\ wk'[t].resp.sessionsRemoved = Cardinality(mine)
              /\ \A i \in mine : ~Alive(proc'[i]) /\ sess'[i].Status = StatusStopped
              /\ \A i \in Ids \ mine : sess'[i] = sess[i] /\ proc'[i] = proc[i]
              /\ \A i \in sessions \ mine : sess[i].TempFiles \cap disk \subseteq disk']_vars

\* a cleanup removed one session while a session of another hash, with its
\* kubeconfig file, stays in the store with its process alive
C17_Witness ==
  \E t \in Workers, i \in sessions :
    /\ wk[t].pc = "done" /\ wk[t].req.ep = "cleanup" /\ wk[t].resp.sessionsRemoved = 1
    /\ sess[i].ClusterHash \notin {NoHash, wk[t].req.h}
    /\ Alive(proc[i]) /\ sess[i].TempFiles # {} /\ sess[i].TempFiles \subseteq disk
    /\ \E j \in 1..(nextId - 1) : j \notin sessions /\ sess[j].ClusterHash = wk[t].req.h

\* C18: a POST /exec whose child was killed by the deadline of its context is
\* answered 504 with exitCode -1 and an error text
C18_TimeoutIs504 ==
  [][\A t \in Workers :
       (wk[t].pc = "wait" /\ wk[t].cmd = "killed" /\ wk'[t].pc = "done")
       => /\ wk'[t].resp.code = 504
          /\ wk'[t].resp.exitCode = -1
          /\ wk'[t].resp.err # ""]_vars

\* C19: no call removes a hash from those Lookup finds, the empty hash is never
\* among them, a Register with the empty hash leaves the registry as it was,
\* and so does a Register or ComputeAndRegister of an entry that is already
\* there with the same kubeconfig and context
C19_RegistryOnlyGrows ==
  [][LET found(reg) == {h \in RegistryHashes : LookupFound(reg, h)}
         hash == IF fin'.op = "Register" THEN fin'.hash ELSE ComputeHash(fin'.k, fin'.c)
     IN  /\ found(clusters) \subseteq found(clusters')
         /\ NoHash \notin found(clusters') /\ NoHash \notin DOMAIN clusters'
         /\ (fin'.op = "Lookup" /\ fin'.hash = NoHash) => fout'[3] = FALSE
         /\ (fin'.op = "Register" /\ fin'.hash = NoHash) => clusters' = clusters
         /\ (/\ fin'.op \in {"Register", "ComputeAndRegister"}
             /\ hash \in DOMAIN clusters
             /\ clusters[hash] = [Kubeconfig |-> fin'.k, Context |-> fin'.c])
            => clusters' = clusters]_vars

\* two hashes are registered and the last call was a Register with the empty
\* hash
C19_Witness ==
  /\ fin.op = "Register" /\ fin.hash = NoHash /\ fin.k = "k"
  /\ Cardinality(DOMAIN clusters) = 2

\* C20: every call of assignPortForCluster on a non-empty hash returns
\* 47824 + (n mod 10000), n being the value of its first four characters read
\* as hexadecimal digits with 0 for a character that is none, a port of
\* 47824..57823; every call on the empty hash returns 8001, a port outside
\* 47824..57823
C20_PortIsFirstFourHexDigits ==
  LET Hex == <<"0", "1", "2", "3", "4", "5", "6", "7", "8", "9",
               "a", "b", "c", "d", "e", "f">>
      HEX == <<"0", "1", "2", "3", "4", "5", "6", "7", "8", "9",
               "A", "B", "C", "D", "E", "F">>
      digit(c) == IF \E v \in 1..16 : c \in {Hex[v], HEX[v]}
                    THEN (CHOOSE v \in 1..16 : c \in {Hex[v], HEX[v]}) - 1
                    ELSE 0
      m == IF Len(fin) < 4 THEN Len(fin) ELSE 4
      weight == <<1, 16, 256, 4096>>
      place(i) == digit(fin[i]) * weight[m - i + 1]
      n == (IF m >= 1 THEN place(1) ELSE 0) + (IF m >= 2 THEN place(2) ELSE 0)
           + (IF m >= 3 THEN place(3) ELSE 0) + (IF m >= 4 THEN place(4) ELSE 0)
  IN  \A i \in 1..Len(fout) :
        IF fin = << >>
          THEN fout[i] = 8001 /\ fout[i] \notin 47824..57823
          ELSE fout[i] = 47824 + (n % 10000) /\ fout[i] \in 47824..57823

\* two calls on a hash of five characters that starts with an upper-case
\* digit and holds a character that is no digit, whose value exceeds 10000
C20_Witness ==
  /\ Len(fout) = 2 /\ Len(fin) = 5
  /\ fin[1] = "F" /\ fin[2] = "g" /\ fin[5] = "9"
  /\ fout[1] = 47824 + ((15 * 4096 + hexCharToInt(fin[3]) * 16 + hexCharToInt(fin[4])) % 10000)

\* C21: the hash computed for (k1, c1) is empty exactly when both are empty;
\* two pairs that are not both empty and join to the same string k + ":" + c
\* have the same hash; the validation of that hash against (k2, c2) succeeds
\* exactly when it is the hash of (k2, c2), so the empty hash is valid only
\* with k2 and c2 empty
C21_HashAndValidation ==
  fout # << >> =>
    LET data(k, c) == k \o ":" \o c
        none(k, c) == k = "" /\ c = ""
    IN  /\ (fout.hash = NoHash) <=> none(fin.k1, fin.c1)
        /\ Len(fout.hash) \in {0, 16}
        /\ (/\ data(fin.k1, fin.c1) = data(fin.k2, fin.c2)
            /\ ~none(fin.k1, fin.c1) /\ ~none(fin.k2, fin.c2))
           => fout.hash = ComputeHash(fin.k2, fin.c2)
        /\ fout.ok <=> (fout.hash = ComputeHash(fin.k2, fin.c2))
        /\ (fout.hash = NoHash /\ fout.ok) => none(fin.k2, fin.c2)

\* the empty hash was validated against a kubeconfig and refused
C21_Witness ==
  /\ fout # << >> /\ fout.hash = NoHash /\ ~fout.ok
  /\ fin.k2 = "k" /\ fin.c2 = "dev"

\* C22: the result of injectKubectlContext(command, context) is the command
\* itself exactly when the command contains --context or the context is
\* empty; otherwise it is the command with a space and --context=<context>
\* inserted after every word kubectl that is followed by whitespace, the
\* whitespace kept as it was
C22_InjectAfterEveryKubectl ==
  fout[1] = "ok" =>
    LET cmd == fin.command
        flag == <<" ", "--context=">> \o fin.context
        word(i) == /\ cmd[i] = "kubectl"
                   /\ i = 1 \/ ~EndsWithWord(cmd[i - 1])
                   /\ i < Len(cmd) /\ IsSpace(cmd[i + 1])
        RECURSIVE inserted(_)
        inserted(i) == IF i > Len(cmd) THEN << >>
                       ELSE <<cmd[i]>> \o (IF word(i) THEN flag ELSE << >>)
                            \o inserted(i + 1)
        asIs == ContainsContextFlag(cmd) \/ fin.context = << >>
    IN  /\ (fout[2] = cmd) <=> asIs
        /\ ~asIs => fout[2] = inserted(1)

\* C23: no log record of a request carries kubeconfig contents: a record has
\* no kubeconfig attribute, or the attribute is empty
C23_KubeconfigNeverLogged ==
  \A t \in Workers : \A i \in 1..Len(wk[t].log) :
    wk[t].log[i].kubeconfig \in {NotLogged, ""}

\* C24: no unlink is aimed at a file that is already gone, neither by the
\* monitor when it returns from Wait nor by the teardown that removes the
\* session, so that each file is unlinked once; and once the monitor of a
\* session has run, the kubeconfig file of the session is not on disk
C24_UnlinkedExactlyOnce ==
  [][/\ \A i \in Ids : (~reaped[i] /\ reaped'[i]) => MonitorFiles(sess[i]) \subseteq disk
     /\ \A i \in sessions \ sessions' : sess[i].TempFiles \subseteq disk
     /\ \A i \in Ids : reaped'[i] => i \notin disk']_vars

\* C25: on every path that removes a session from the store (Stop, StopAll,
\* the evictor, CleanupByClusterHash) the process of the session, when it has
\* one, has been killed by the time the session is deleted from the map: no
\* step takes a session out of the store and leaves its process alive.
C25_KillBeforeDelete ==
  [][\A i \in sessions \ sessions' :
       /\ ~Alive(proc'[i])
       /\ Alive(proc[i]) => proc'[i] = "killed"]_vars

\* each of the four paths has removed a session whose process was alive
C25_Witness ==
  /\ main.pc = "stopall"
  /\ \E i \in Ids : i \notin sessions /\ proc[i] = "killed" /\ ~reaped[i]

C25_WitnessEvictor ==
  /\ main.cleanupLoop = "select"
  /\ main.pc = "serving"
  /\ \A t \in Solo : wk[t].pc = "idle"
  /\ \E i \in Ids : i \notin sessions /\ proc[i] = "killed" /\ ~reaped[i]
                    /\ sess[i].Status = StatusRunning

\* C26: an output poll of an exec or shell session that observes the status
\* stopped after the child has exited also observes a non-null exit code.
C26_StoppedHasExitCode ==
  \A t \in Solo :
    (/\ wk[t].pc = "done" /\ wk[t].req.ep = "output" /\ wk[t].resp.code = 200
     /\ wk[t].resp.status = StatusStopped
     /\ proc[wk[t].resp.sid] = "exited")
      => wk[t].resp.sessionExitCode # NilExitCode

\* a poll has observed a stopped session together with its exit code
C26_Witness ==
  \E t \in Solo :
    /\ wk[t].pc = "done" /\ wk[t].req.ep = "output" /\ wk[t].resp.code = 200
    /\ wk[t].resp.status = StatusStopped
    /\ wk[t].resp.sessionExitCode # NilExitCode

\* C27: an output poll of an exec session that observes the status stopped
\* returns every byte the child wrote before it exited.
C27_StoppedHasAllOutput ==
  \A t \in Solo :
    (/\ wk[t].pc = "done" /\ wk[t].req.ep = "output" /\ wk[t].resp.code = 200
     /\ wk[t].resp.status = StatusStopped
     /\ sess[wk[t].resp.sid].Type = TypeExec)
      => wk[t].resp.output = sess[wk[t].resp.sid].childOut

\* a poll of a stopped exec session has returned output
C27_Witness ==
  \E t \in Solo :
    /\ wk[t].pc = "done" /\ wk[t].req.ep = "output" /\ wk[t].resp.code = 200
    /\ wk[t].resp.status = StatusStopped
    /\ sess[wk[t].resp.sid].Type = TypeExec
    /\ wk[t].resp.output # << >>

\* C28: every error exit a start handler takes after Create (kubectl not
\* found, kubeconfig write failure, pipe failure, child start failure, child
\* exited during the readiness probe, probe exhausted) leaves the session
\* absent from the store and its process, if started, not alive.
C28_ErrorExitLeavesNothing ==
  [][\A t \in Workers :
       (/\ wk[t].pc \in {"launch", "probe"}
        /\ wk'[t].pc = "done"
        /\ wk'[t].resp.code = 500)
         => /\ wk[t].sid \notin sessions'
            /\ ~Alive(proc'[wk[t].sid])]_vars

\* a start handler has given up on its readiness probe
C28_Witness ==
  \E t \in Workers :
    /\ wk[t].pc = "done" /\ wk[t].resp.code = 500 /\ wk[t].resp.err = "not listening"
    /\ wk[t].sid \notin sessions
    /\ proc[wk[t].sid] = "killed"

\* C29: once Shutdown() has returned the evictor performs no further
\* eviction pass: every pass of cleanupInactiveSessions is made while main is
\* still serving, so none runs with or after StopAll.
C29_NoPassAfterShutdown ==
  [][(main.cleanupLoop = "pass" /\ main'.cleanupLoop = "select")
       => main.pc = "serving"]_vars

\* the evictor has made a pass and main has shut down with the loop returned
C29_Witness ==
  /\ main.pc = "stopall"
  /\ main.cleanupLoop = "returned"
  /\ lastPass > 0

\* the second half of C29: no eviction pass made after StopAll has run kills a
\* process
C29_NoKillAfterStopAll ==
  [][(main.cleanupLoop = "pass" /\ main'.cleanupLoop = "select"
      /\ main.pc = "stopall")
       => \A i \in Ids : Alive(proc[i]) => Alive(proc'[i])]_vars

\* C30: every alive child process started by a session handler belongs to a
\* session present in the store, under any interleaving of a start handler
\* with StopAll or CleanupByClusterHash.
C30_AliveChildHasSession ==
  \A i \in Ids : Alive(proc[i]) => i \in sessions

\* a child is alive in its session while main is serving
C30_Witness ==
  /\ main.pc = "serving"
  /\ \E i \in sessions : Alive(proc[i]) /\ sess[i].ClusterHash # NoHash

\* the consequence C30 draws: after StopAll at graceful shutdown no started
\* child is left alive
C30_NoChildAfterStopAll ==
  main.pc = "closed" => \A i \in Ids : ~Alive(proc[i])

\* C31: the preempt step of a proxy start never stops a session of the
\* request's own cluster hash: neither one that carries the hash, nor one that
\* a concurrent handler for the same hash has just created and not yet given
\* its clusterHash.
C31_PreemptSparesOwnCluster ==
  [][\A t \in Workers :
       (wk[t].pc = "preempt" /\ wk'[t].pc = "create")
         => \A i \in sessions \ sessions' :
              /\ sess[i].ClusterHash # wk[t].h
              /\ ~\E u \in Workers \ {t} :
                    wk[u].pc = "sethash" /\ wk[u].sid = i /\ wk[u].h = wk[t].h]_vars

\* a preempt step has stopped a proxy of another cluster
C31_Witness ==
  \E t \in Workers :
    /\ wk[t].pc = "create"
    /\ \E i \in Ids : /\ i \notin sessions
                      /\ sess[i].Type = TypeProxy
                      /\ sess[i].Port = wk[t].aport
                      /\ sess[i].ClusterHash \notin {NoHash, wk[t].h}

\* C32: in every reachable state every registry entry h -> (kubeconfig,
\* context) satisfies h = ComputeHash(kubeconfig, context).
C32_RegistryEntriesAreHashes ==
  \A h \in DOMAIN clusters :
    h = ComputeHash(clusters[h].Kubeconfig, clusters[h].Context)

\* a start request has been accepted and its cluster is registered
C32_Witness ==
  /\ DOMAIN clusters # {}
  /\ \E t \in Solo : wk[t].pc = "done" /\ wk[t].resp.code = 200
                     /\ wk[t].resp.h \in DOMAIN clusters

\* the particular case C32 names: a request rejected for a hash mismatch or a
\* registry miss leaves the registry unchanged
C32_RejectLeavesRegistry ==
  [][\A t \in Solo :
       (wk[t].pc = "idle" /\ wk'[t].pc = "done" /\ wk'[t].resp.code = 400
        /\ wk'[t].req.ep \in StartEndpoints)
         => clusters' = clusters]_vars

\* C33: a proxy start request that ends in an error (kubectl not found, child
\* exited, readiness probe exhausted) has stopped no proxy that was running
\* before the request.
C33_FailedStartStopsNobody ==
  \A t \in Solo :
    (wk[t].pc = "done" /\ wk[t].req.ep = TypeProxy /\ wk[t].resp.code = 500)
      => wk[t].preempted = {}

\* a proxy start has ended in an error after its session was created
C33_Witness ==
  \E t \in Solo :
    /\ wk[t].pc = "done" /\ wk[t].req.ep = TypeProxy /\ wk[t].resp.code = 500
    /\ wk[t].sid # 0
    /\ wk[t].preempted = {}
    /\ sessions # {}

\* C34: the lastReadTime of a proxy or port-forward session is never advanced
\* after Create, and so every evictor pass removes and kills each running
\* proxy for which inactivityTimeout has elapsed since its creation, routed
\* requests or not.
C34_ProxyClockNeverAdvances ==
  [][/\ \A i \in sessions \cap sessions' :
          sess[i].Type \in UnreadEndpoints
            => sess'[i].lastReadTime = sess[i].lastReadTime
     /\ lastPass' # lastPass
          => \A i \in List(TypeProxy) :
               (sess[i].Status = StatusRunning
                /\ now - sess[i].lastReadTime > InactivityTimeout)
                 => i \notin sessions' /\ ~Alive(proc'[i])]_vars

\* a pass has removed and killed a running proxy past its inactivity timeout
C34_Witness ==
  \E i \in Ids :
    /\ i \notin sessions
    /\ sess[i].Type = TypeProxy
    /\ sess[i].Status = StatusRunning
    /\ proc[i] = "killed"
    /\ lastPass = now
    /\ now - sess[i].lastReadTime > InactivityTimeout

\* what holds: no step other than an output poll advances the lastReadTime of
\* a proxy or port-forward session, and a pass removes every running proxy
\* whose lastReadTime is more than inactivityTimeout in the past
C34_OnlyPollAdvancesProxyClock ==
  [][/\ \A i \in sessions \cap sessions' :
          (sess[i].Type \in UnreadEndpoints
           /\ sess'[i].lastReadTime # sess[i].lastReadTime)
            => \E t \in Solo : wk'[t].pc = "done" /\ wk'[t].req.ep = "output"
                               /\ wk'[t].req.id = i /\ wk[t].pc = "idle"
     /\ lastPass' # lastPass
          => \A i \in List(TypeProxy) :
               (sess[i].Status = StatusRunning
                /\ now - sess[i].lastReadTime > InactivityTimeout)
                 => i \notin sessions' /\ ~Alive(proc'[i])]_vars

C36_WitnessOtherContext ==
  \E t \in Solo, i \in sessions :
    /\ wk[t].pc = "preempt"
    /\ sess[i].Type = TypeProxy
    /\ sess[i].Status = StatusRunning
    /\ sess[i].ClusterHash = wk[t].h
    /\ sess[i].Context # wk[t].c

\* C37: teardown is idempotent: a Stop of an id that is not in the store (any
\* more) answers without error and leaves the store, the session objects, the
\* processes and the temp files as they are, and no session is torn down (kill
\* and cleanup callback) more than once, whichever of Stop, StopAll, the
\* cleanup by hash and the evictor's passes meet on it
C37_TeardownIdempotent ==
  [][/\ \A i \in Ids : sess'[i].teardowns <= 1
     /\ \A t \in Solo :
          (/\ wk[t].pc = "idle" /\ wk'[t].req.ep = "stop"
           /\ wk'[t].req.h = NoHash /\ wk'[t].req.id \notin sessions)
          => /\ wk'[t].pc = "done" /\ wk'[t].resp.code = 200
             /\ UNCHANGED <<sessions, sess, proc, disk>>]_vars

\* a Stop was answered 200 for a session that an evictor pass had removed
\* before (its status is still running, its child killed, torn down once)
C37_Witness ==
  \E t \in Solo :
    LET id == wk[t].req.id
    IN  /\ wk[t].pc = "done" /\ wk[t].req.ep = "stop" /\ wk[t].resp.code = 200
        /\ id \notin sessions /\ id < nextId
        /\ sess[id].Status = StatusRunning /\ sess[id].teardowns = 1
        /\ proc[id] = "killed"

\* a Stop was answered 200 for a session that an earlier Stop or StopAll had
\* removed, and main has gone through StopAll since
C37_WitnessStopAll ==
  \E t \in Solo :
    LET id == wk[t].req.id
    IN  /\ wk[t].pc = "done" /\ wk[t].req.ep = "stop" /\ wk[t].resp.code = 200
        /\ id \notin sessions /\ id < nextId
        /\ sess[id].Status = StatusStopped /\ sess[id].teardowns = 1
        /\ main.pc # "serving"

\* C38: the clusterHash of a session never changes while the session is in
\* the store: from the state in which Create inserted it on, Get, List and
\* FindByClusterHash show the same clusterHash until the session is removed
C38_ClusterHashFixedAtCreate ==
  [][\A i \in sessions \cap sessions' :
       sess'[i].ClusterHash = sess[i].ClusterHash]_vars

\* a session is in the store with an empty clusterHash, its handler has not
\* yet assigned the hash h of the request, and a stop that named the session
\* with h was answered 404
C38_Witness ==
  \E t, u \in Workers :
    /\ wk[t].pc = "sethash" /\ wk[t].sid \in sessions
    /\ sess[wk[t].sid].ClusterHash = NoHash /\ wk[t].h # NoHash
    /\ wk[u].pc = "done" /\ wk[u].req.ep = "stop" /\ wk[u].req.id = wk[t].sid
    /\ wk[u].req.h = wk[t].h /\ wk[u].resp.code = 404

\* a clusterHash that has been assigned is never replaced
C38_AssignedHashStays ==
  [][\A i \in sessions \cap sessions' :
       sess[i].ClusterHash # NoHash => sess'[i].ClusterHash = sess[i].ClusterHash]_vars

\* an output poll of session i by some worker: GET .../output/{i} answered 200
PolledNow(i) ==
  \E t \in Workers :
    /\ wk[t].pc = "idle" /\ wk'[t].pc = "done"
    /\ wk'[t].req.ep = "output" /\ wk'[t].req.id = i /\ wk'[t].resp.code = 200

\* C39: the lastReadTime of a session in the store is advanced only by a
\* client's output read request for it; every other step, the monitors
\* included, leaves the inactivity clock of every session as it is
C39_OnlyPollAdvancesClock ==
  [][\A i \in sessions :
       sess'[i].lastReadTime # sess[i].lastReadTime => PolledNow(i)]_vars

\* the monitor of a failed exec session has run while the session is in the
\* store, the client has sent nothing since the start request, and the
\* session's lastReadTime is the time at which the monitor ran
C39_Witness ==
  \E t \in Solo, i \in sessions :
    /\ wk[t].pc = "done" /\ wk[t].req.ep = TypeExec /\ wk[t].sid = i
    /\ sess[i].Type = TypeExec /\ reaped[i] /\ sess[i].ExitCode = <<1>>
    /\ sess[i].stoppedAt > 0 /\ sess[i].lastReadTime = sess[i].stoppedAt

\* the lastReadTime of a session in the store is advanced only by an output
\* poll for it or by the monitor of an exec session
C39_OnlyPollOrExecMonitor ==
  [][\A i \in sessions :
       sess'[i].lastReadTime # sess[i].lastReadTime
         => \/ PolledNow(i)
            \/ sess[i].Type = TypeExec /\ ~reaped[i] /\ reaped'[i]]_vars

(***************************************************************************)
(* logging.AsyncHandler: Handle by two goroutines, the worker, WithAttrs   *)
(* and Close. A send on the closed queue and a second close of it panic,   *)
(* which ends the process.                                                 *)
(***************************************************************************)
\* queueSize of NewAsyncHandler, and the number of records logged
QueueSize == 2
MaxRecords == 3

LoggerFrame ==
  UNCHANGED <<sessions, sess, proc, reaped, disk, clusters, nextId, wk, now,
              lastPass, main, fin, fout>>

\* Handle up to the select: under h.mu, return nil if h.closed
HandleBegin(g, h) ==
  /\ logger.panic = "" /\ logger.pc[g] = "idle"
  /\ h \in logger.handlers
  /\ logger.records < MaxRecords
  /\ logger' = IF logger.closed[h]
                 THEN [logger EXCEPT !.records = @ + 1]
                 ELSE [logger EXCEPT !.records = @ + 1, !.pc[g] = "send",
                                     !.h[g] = h, !.rec[g] = logger.records + 1]
  /\ LoggerFrame

\* the select: send if the queue has room, drop the record otherwise; a send
\* on a closed channel panics
HandleSend(g) ==
  /\ logger.panic = "" /\ logger.pc[g] = "send"
  /\ logger' = IF logger.queueClosed
                 THEN [logger EXCEPT !.panic = "send on closed channel",
                                     !.pc[g] = "panic"]
                 ELSE IF Len(logger.queue) < QueueSize
                        THEN [logger EXCEPT !.queue = Append(@, logger.rec[g]),
                                            !.pc[g] = "idle"]
                        ELSE [logger EXCEPT !.pc[g] = "idle"]
  /\ LoggerFrame

\* WithAttrs and WithGroup: a new AsyncHandler on the same queue, with its own
\* closed flag, mutex and WaitGroup
WithAttrs(h) ==
  /\ logger.panic = ""
  /\ h \in logger.handlers /\ "derived" \notin logger.handlers
  /\ logger' = [logger EXCEPT !.handlers = @ \cup {"derived"}]
  /\ LoggerFrame

\* worker: for entry := range h.queue { h.handler.Handle(...) }
WorkerHandle ==
  /\ logger.panic = "" /\ logger.worker = "range"
  /\ logger.queue # << >>
  /\ logger' = [logger EXCEPT !.handled = Append(@, Head(logger.queue)),
                              !.queue = Tail(@)]
  /\ LoggerFrame

\* the range ends when the queue is closed and empty; defer h.wg.Done()
WorkerDone ==
  /\ logger.panic = "" /\ logger.worker = "range"
  /\ logger.queue = << >> /\ logger.queueClosed
  /\ logger' = [logger EXCEPT !.worker = "done", !.wg["root"] = 0]
  /\ LoggerFrame

\* Close up to close(h.queue): under h.mu, return if h.closed, else set it
CloseBegin(h) ==
  /\ logger.panic = "" /\ logger.close.pc = "idle"
  /\ h \in logger.handlers
  /\ logger' = IF logger.closed[h]
                 THEN [logger EXCEPT !.close = [pc |-> "returned", h |-> h]]
                 ELSE [logger EXCEPT !.closed[h] = TRUE,
                                     !.close = [pc |-> "close", h |-> h]]
  /\ LoggerFrame

\* close(h.queue); the close of a closed channel panics
CloseQueue ==
  /\ logger.panic = "" /\ logger.close.pc = "close"
  /\ logger' = IF logger.queueClosed
                 THEN [logger EXCEPT !.panic = "close of closed channel"]
                 ELSE [logger EXCEPT !.queueClosed = TRUE, !.close.pc = "wait"]
  /\ LoggerFrame

\* h.wg.Wait()
CloseWait ==
  /\ logger.panic = "" /\ logger.close.pc = "wait"
  /\ logger.wg[logger.close.h] = 0
  /\ logger' = [logger EXCEPT !.close.pc = "returned"]
  /\ LoggerFrame

\* the caller of Close goes on (and may call Close again)
CloseReturned ==
  /\ logger.panic = "" /\ logger.close.pc = "returned"
  /\ logger' = [logger EXCEPT !.close.pc = "idle"]
  /\ LoggerFrame

NextLogger ==
  \/ \E g \in Callers, h \in Handlers : HandleBegin(g, h)
  \/ \E g \in Callers : HandleSend(g)
  \/ \E h \in Handlers : WithAttrs(h)
  \/ WorkerHandle
  \/ WorkerDone
  \/ \E h \in Handlers : CloseBegin(h)
  \/ CloseQueue
  \/ CloseWait
  \/ CloseReturned

SpecLogger == Init /\ [][NextLogger]_vars

\* C40: Handle never sends on the log queue after Close has closed it,
\* whatever the interleaving of Handle and Close and whichever handler (the
\* first or one derived by WithAttrs or WithGroup) is used
C40_NoSendAfterClose ==
  [][\A g \in Callers :
       (logger.pc[g] = "send" /\ logger'.pc[g] # "send") => ~logger.queueClosed]_vars

\* a Handle has panicked on its send because the queue was closed
C40_Witness ==
  /\ logger.panic = "send on closed channel"
  /\ \E g \in Callers : logger.pc[g] = "panic" /\ logger.closed[logger.h[g]]

\* the same through a derived handler, whose closed flag was never set
C40_WitnessDerived ==
  /\ logger.panic = "send on closed channel"
  /\ \E g \in Callers : logger.pc[g] = "panic" /\ logger.h[g] = "derived"
                          /\ ~logger.closed["derived"]

\* when Close of the first handler has returned, every record that was
\* queued has been handed to the wrapped handler
C40_FlushedWhenCloseReturns ==
  (logger.close.pc = "returned" /\ logger.close.h = "root")
    => logger.queue = << >> /\ logger.worker = "done"

\* the same for Close of any handler
C40_FlushedWhenAnyCloseReturns ==
  logger.close.pc = "returned" => logger.queue = << >>
====
